---- MODULE Spec2Model ----
\* Hierarchical connectivity extraction (db/dbHierNetworkProcessor.cc).
\*
\* Geometry is restricted to boxes with integer coordinates and transformations
\* to displacements (ICplxTrans without rotation or magnification).  A shape T
\* (db::PolygonRef of a box) is <<sid, box>>: sid tells distinct shapes of a
\* cell apart, box is the shape's box in the cell's coordinates.
EXTENDS Integers, Sequences, FiniteSets, Bags, TLC

VARIABLES
  cb,   \* local_clusters::build_clusters with its cluster_building_receiver
  sp,   \* local_cluster::split (split_cluster)
  ic,   \* incoming_cluster_connections
  it,   \* recursive_cluster_shape_iterator
  hb,   \* hier_clusters::build
  dob,  \* hier_clusters::do_build: the order in which the cells are stitched
  lcl,  \* local_clusters: insert, remove_cluster, join_cluster_with and the queries
  cty,  \* Connectivity
  rci,  \* recursive_cluster_iterator
  lsh,  \* local_cluster: add, join_with, interacts and the sorted state
  mtj,  \* hc_receiver::mark_to_join and join_superclusters
  att   \* hc_receiver::add_single_pair (instances): the owners of the two edges

vars == <<cb, sp, ic, it, hb, dob, lcl, cty, rci, lsh, mtj, att>>

Idle == [phase |-> "idle"]

\* the objects of the machines that follow the build
unitVars == <<dob, lcl, cty, rci, lsh, mtj, att>>
UnitIdle ==
  dob = Idle /\ lcl = Idle /\ cty = Idle /\ rci = Idle /\ lsh = Idle /\ mtj = Idle /\ att = Idle

\* the objects of the machines up to the build
buildVars == <<cb, sp, ic, it, hb>>
BuildIdle == cb = Idle /\ sp = Idle /\ ic = Idle /\ it = Idle /\ hb = Idle

\* ---------------------------------------------------------------------------
\* generic helpers

Max2(a, b) == IF a >= b THEN a ELSE b
Min2(a, b) == IF a <= b THEN a ELSE b

\* std::map with operator[] default
MapGet(m, k, dflt) == IF k \in DOMAIN m THEN m[k] ELSE dflt
MapPut(m, k, v) == [x \in DOMAIN m \cup {k} |-> IF x = k THEN v ELSE m[x]]
MapErase(m, k) == [x \in DOMAIN m \ {k} |-> m[x]]
EmptyMap == [x \in {} |-> 0]

RECURSIVE SeqOfSet(_)
\* the elements of a set of integers in ascending order
SeqOfSet(S) ==
  IF S = {} THEN <<>>
  ELSE LET m == CHOOSE x \in S : \A y \in S : x <= y
       IN <<m>> \o SeqOfSet(S \ {m})

RECURSIVE SumSeq(_)
SumSeq(s) == IF s = <<>> THEN 0 ELSE Head(s) + SumSeq(Tail(s))

Range(s) == {s[i] : i \in DOMAIN s}

\* ---------------------------------------------------------------------------
\* db::Box as <<left, bottom, right, top>>; a box is empty iff left > right or
\* bottom > top (two boxes sharing only an edge intersect in a non-empty box).

EmptyBox == <<1, 1, 0, 0>>
BoxIsEmpty(b) == b[1] > b[3] \/ b[2] > b[4]
BoxNorm(b) == IF BoxIsEmpty(b) THEN EmptyBox ELSE b
\* box & box
BoxAnd(a, b) ==
  IF BoxIsEmpty(a) \/ BoxIsEmpty(b) THEN EmptyBox
  ELSE BoxNorm(<<Max2(a[1], b[1]), Max2(a[2], b[2]), Min2(a[3], b[3]), Min2(a[4], b[4])>>)
\* box += box
BoxPlus(a, b) ==
  IF BoxIsEmpty(a) THEN BoxNorm(b)
  ELSE IF BoxIsEmpty(b) THEN a
  ELSE <<Min2(a[1], b[1]), Min2(a[2], b[2]), Max2(a[3], b[3]), Max2(a[4], b[4])>>
BoxTouches(a, b) ==
  /\ ~BoxIsEmpty(a) /\ ~BoxIsEmpty(b)
  /\ a[1] <= b[3] /\ b[1] <= a[3] /\ a[2] <= b[4] /\ b[2] <= a[4]
\* box.transformed (t) for a displacement t = <<dx, dy>>
BoxTrans(b, t) ==
  IF BoxIsEmpty(b) THEN EmptyBox ELSE <<b[1] + t[1], b[2] + t[2], b[3] + t[1], b[4] + t[2]>>
BoxArea(b) == IF BoxIsEmpty(b) THEN 0 ELSE (b[3] - b[1]) * (b[4] - b[2])
BoxWidth(b) == b[3] - b[1]
BoxHeight(b) == b[4] - b[2]
BoxCenter(b) == <<b[1] + (b[3] - b[1]) \div 2, b[2] + (b[4] - b[2]) \div 2>>

RECURSIVE BoxSum(_)
\* the bounding box of a sequence of boxes
BoxSum(bs) ==
  IF bs = <<>> THEN EmptyBox
  ELSE CHOOSE r \in {BoxPlus(Head(bs), rest) : rest \in {BoxSum(Tail(bs))}} : TRUE
RECURSIVE BoxOfSet(_)
\* the bounding box of a set of boxes
BoxOfSet(S) ==
  IF S = {} THEN EmptyBox
  ELSE LET x == CHOOSE y \in S : TRUE
       IN CHOOSE r \in {BoxPlus(x, rest) : rest \in {BoxOfSet(S \ {x})}} : TRUE

\* displacements
TUnit == <<0, 0>>
TMul(t1, t2) == <<t1[1] + t2[1], t1[2] + t2[2]>>
TInv(t) == <<0 - t[1], 0 - t[2]>>

\* ---------------------------------------------------------------------------
\* Connectivity

ConnEmpty == [m_connected |-> EmptyMap, m_all_layers |-> {}]

\* connect (la, lb) that enters lb at la only
ConnConnectOneWay(c, la, lb) ==
  [m_connected |-> MapPut(c.m_connected, la, MapGet(c.m_connected, la, {}) \cup {lb}),
   m_all_layers |-> c.m_all_layers \cup {la, lb}]

ConnConnect2(c, la, lb) ==
  LET m1 == MapPut(c.m_connected, la, MapGet(c.m_connected, la, {}) \cup {lb})
      m2 == MapPut(m1, lb, MapGet(m1, lb, {}) \cup {la})
  IN [m_connected |-> m2, m_all_layers |-> c.m_all_layers \cup {la, lb}]

ConnConnect1(c, l) ==
  [m_connected |-> MapPut(c.m_connected, l, MapGet(c.m_connected, l, {}) \cup {l}),
   m_all_layers |-> c.m_all_layers \cup {l}]

\* begin_connected .. end_connected
ConnConnected(c, l) == MapGet(c.m_connected, l, {})

\* interaction_test for two boxes: db::interact (box, box) is "touches"
InteractionTest(a, b, trans) == BoxTouches(a[2], BoxTrans(b[2], trans))

ConnInteracts(c, a, la, b, lb, trans) ==
  IF la \notin DOMAIN c.m_connected \/ lb \notin c.m_connected[la]
  THEN FALSE
  ELSE InteractionTest(a, b, trans)

\* ---------------------------------------------------------------------------
\* local_cluster: m_shapes is a bag of <<layer, T>>

LcNew(id) ==
  [m_id |-> id, m_shapes |-> EmptyBag, m_attrs |-> {}, m_size |-> 0,
   m_needs_update |-> FALSE, m_bbox |-> EmptyBox]

LcClear(cl) == LcNew(cl.m_id)

LcAddAttr(cl, a) == IF a > 0 THEN [cl EXCEPT !.m_attrs = @ \cup {a}] ELSE cl

LcAdd(cl, s, la) ==
  [cl EXCEPT !.m_shapes = @ (+) SetToBag({<<la, s>>}),
             !.m_needs_update = TRUE,
             !.m_size = @ + 1]

LcJoinWith(cl, other) ==
  [cl EXCEPT !.m_shapes = @ (+) other.m_shapes,
             !.m_attrs = @ \cup other.m_attrs,
             !.m_size = @ + other.m_size,
             !.m_needs_update = TRUE]

LcEnsureSorted(cl) ==
  IF ~cl.m_needs_update THEN cl
  ELSE [cl EXCEPT !.m_bbox = BoxOfSet({e[2][2] : e \in BagToSet(cl.m_shapes)}),
                  !.m_needs_update = FALSE]

\* bbox (): ensure_sorted, then m_bbox
LcBBox(cl) == LcEnsureSorted(cl).m_bbox

LcLayers(cl) == {e[1] : e \in BagToSet(cl.m_shapes)}

\* the shapes of one layer (begin (l) .. at_end), as a bag of T
LcShapesOn(cl, l) ==
  LET S == {e \in BagToSet(cl.m_shapes) : e[1] = l}
  IN [t \in {e[2] : e \in S} |-> cl.m_shapes[<<l, t>>]]

\* the shapes of layer l touching box (begin_touching)
LcTouching(cl, l, box) ==
  {e[2] : e \in {x \in BagToSet(cl.m_shapes) : x[1] = l /\ BoxTouches(x[2][2], box)}}

\* ---------------------------------------------------------------------------
\* local_clusters: m_clusters holds the clusters by index, id = index + 1

LcsNew == [m_clusters |-> <<>>, m_next_dummy_id |-> 0]

\* the largest id_type value (size_t, here of 16 bits)
SizeMax == 65536 - 1

\* insert_dummy (): --m_next_dummy_id
LcsInsertDummy(lcs) ==
  [lcs EXCEPT !.m_next_dummy_id = (@ + SizeMax) % (SizeMax + 1)]

LcsInsert(lcs) ==
  [lcs EXCEPT !.m_clusters = Append(@, LcNew(Len(@) + 1))]

\* cluster_by_id that gives the last cluster for the ids behind it
LcsClusterByIdClamps(lcs, id) ==
  IF lcs.m_clusters = <<>> THEN LcNew(0)
  ELSE IF id > Len(lcs.m_clusters) THEN lcs.m_clusters[Len(lcs.m_clusters)]
  ELSE lcs.m_clusters[id]

LcsClusterById(lcs, id) ==
  IF id > Len(lcs.m_clusters) THEN LcNew(0) ELSE lcs.m_clusters[id]

\* remove_cluster that takes the cluster out of the container
LcsRemoveClusterShifts(lcs, id) ==
  IF id = 0 \/ id > Len(lcs.m_clusters) THEN lcs
  ELSE [lcs EXCEPT !.m_clusters = [k \in 1..(Len(@) - 1) |-> IF k < id THEN @[k] ELSE @[k + 1]]]

LcsRemoveCluster(lcs, id) ==
  IF id = 0 \/ id > Len(lcs.m_clusters) THEN lcs
  ELSE [lcs EXCEPT !.m_clusters[id] = LcClear(@)]

LcsJoinClusterWith(lcs, id, with_id) ==
  IF with_id = 0 \/ with_id > Len(lcs.m_clusters) \/ id > Len(lcs.m_clusters) THEN lcs
  ELSE [lcs EXCEPT !.m_clusters =
          [@ EXCEPT ![id] = LcJoinWith(@, lcs.m_clusters[with_id]),
                    ![with_id] = LcClear(@)]]

\* the ids of the clusters whose bounding box touches box (begin_touching),
\* in ascending order
LcsTouching(lcs, box) ==
  SeqOfSet({i \in 1..Len(lcs.m_clusters) : BoxTouches(LcBBox(lcs.m_clusters[i]), box)})

LcsBBox(lcs) == BoxOfSet({LcBBox(lcs.m_clusters[i]) : i \in 1..Len(lcs.m_clusters)})

\* ---------------------------------------------------------------------------
\* cluster_building_receiver.  The scanner's elements are els[i] =
\* [t |-> T, p |-> <<layer, attr>>]; a shape pointer is the index i.  m_clusters
\* (a std::list of vectors) is a sequence of list nodes with the vector of each
\* node; a list iterator is the node.

RecNew == [m_clusters |-> <<>>, vec |-> EmptyMap, m_shape_to_clusters |-> EmptyMap, nodes |-> 0]

RecPushBack(rec, v) ==
  [rec EXCEPT !.m_clusters = Append(@, rec.nodes + 1),
              !.vec = MapPut(@, rec.nodes + 1, v),
              !.nodes = @ + 1]

RecErase(rec, j) ==
  [rec EXCEPT !.m_clusters = SelectSeq(@, LAMBDA n : n # j),
              !.vec = MapErase(@, j)]

\* add () without the join of two candidates
RecAddNoJoin(rec, conn, els, s1, s2) ==
  LET m == rec.m_shape_to_clusters IN
  IF ~ConnInteracts(conn, els[s1].t, els[s1].p[1], els[s2].t, els[s2].p[1], TUnit) THEN rec
  ELSE IF s1 \notin DOMAIN m /\ s2 \notin DOMAIN m THEN
    LET r == RecPushBack(rec, <<s1, s2>>)
    IN [r EXCEPT !.m_shape_to_clusters = MapPut(MapPut(@, s1, r.nodes), s2, r.nodes)]
  ELSE IF s1 \notin DOMAIN m THEN
    [rec EXCEPT !.vec[m[s2]] = Append(@, s1), !.m_shape_to_clusters = MapPut(@, s1, m[s2])]
  ELSE IF s2 \notin DOMAIN m THEN
    [rec EXCEPT !.vec[m[s1]] = Append(@, s2), !.m_shape_to_clusters = MapPut(@, s2, m[s1])]
  ELSE rec

\* add (s1, p1, s2, p2)
RecAdd(rec, conn, els, s1, s2) ==
  LET m == rec.m_shape_to_clusters IN
  IF ~ConnInteracts(conn, els[s1].t, els[s1].p[1], els[s2].t, els[s2].p[1], TUnit) THEN rec
  ELSE IF s1 \notin DOMAIN m THEN
    IF s2 \notin DOMAIN m THEN
      LET r == RecPushBack(rec, <<s1, s2>>)
      IN [r EXCEPT !.m_shape_to_clusters = MapPut(MapPut(@, s1, r.nodes), s2, r.nodes)]
    ELSE
      [rec EXCEPT !.vec[m[s2]] = Append(@, s1), !.m_shape_to_clusters = MapPut(@, s1, m[s2])]
  ELSE IF s2 \notin DOMAIN m THEN
    [rec EXCEPT !.vec[m[s1]] = Append(@, s2), !.m_shape_to_clusters = MapPut(@, s2, m[s1])]
  ELSE IF m[s1] # m[s2] THEN
    \* join clusters: use the larger one as the target
    LET swap == Len(rec.vec[m[s1]]) < Len(rec.vec[m[s2]])
        c1 == IF swap THEN m[s2] ELSE m[s1]
        c2 == IF swap THEN m[s1] ELSE m[s2]
        joined == [rec EXCEPT !.vec[c1] = @ \o rec.vec[c2],
                              !.m_shape_to_clusters =
                                 [x \in DOMAIN m |-> IF m[x] = c2 THEN c1 ELSE m[x]]]
    IN RecErase(joined, c2)
  ELSE rec

\* finish (s, p)
RecFinish(rec, s) ==
  IF s \in DOMAIN rec.m_shape_to_clusters THEN rec
  ELSE LET r == RecPushBack(rec, <<s>>)
       IN [r EXCEPT !.m_shape_to_clusters = MapPut(@, s, r.nodes)]

RECURSIVE GenCluster(_, _, _)
\* the inner loop of generate_clusters: add the shapes of one vector
GenCluster(cl, els, v) ==
  IF v = <<>> THEN cl
  ELSE GenCluster(LcAddAttr(LcAdd(cl, els[Head(v)].t, els[Head(v)].p[1]), els[Head(v)].p[2]),
                  els, Tail(v))

RECURSIVE GenerateClusters(_, _, _, _)
\* generate_clusters (clusters), from list position k on
GenerateClusters(rec, els, lcs, k) ==
  IF k > Len(rec.m_clusters) THEN lcs
  ELSE LET l1 == LcsInsert(lcs)
           id == Len(l1.m_clusters)
           l2 == [l1 EXCEPT !.m_clusters[id] = GenCluster(@, els, rec.vec[rec.m_clusters[k]])]
       IN GenerateClusters(rec, els, l2, k + 1)

\* the elements build_clusters hands to the scanner: the shapes of the cell on
\* the layers of the connectivity, layer by layer
ScannerElements(shapes, conn) ==
  LET idx == SeqOfSet({i \in DOMAIN shapes : shapes[i].layer \in conn.m_all_layers})
  IN [k \in DOMAIN idx |-> [t |-> <<idx[k], shapes[idx[k]].box>>,
                            p |-> <<shapes[idx[k]].layer, shapes[idx[k]].attr>>]]

\* the pairs the box scanner reports: the elements whose boxes touch
ScannerPairs(els) ==
  {pr \in (DOMAIN els) \X (DOMAIN els) :
     pr[1] < pr[2] /\ BoxTouches(els[pr[1]].t[2], els[pr[2]].t[2])}

RECURSIVE RecAddAll(_, _, _, _)
RecAddAll(rec, conn, els, prs) ==
  IF prs = <<>> THEN rec
  ELSE RecAddAll(RecAdd(rec, conn, els, Head(prs)[1], Head(prs)[2]), conn, els, Tail(prs))

RECURSIVE RecFinishAll(_, _, _)
RecFinishAll(rec, n, k) ==
  IF k > n THEN rec ELSE RecFinishAll(RecFinish(rec, k), n, k + 1)

RECURSIVE PairSeq(_)
\* a set of pairs in lexicographic order
PairSeq(P) ==
  IF P = {} THEN <<>>
  ELSE LET m == CHOOSE x \in P : \A y \in P : x[1] < y[1] \/ (x[1] = y[1] /\ x[2] <= y[2])
       IN <<m>> \o PairSeq(P \ {m})

\* local_clusters::build_clusters with the scanner reporting in lexicographic order
BuildClusters(shapes, conn) ==
  LET els == ScannerElements(shapes, conn)
      r1 == RecAddAll(RecNew, conn, els, PairSeq(ScannerPairs(els)))
      r2 == RecFinishAll(r1, Len(els), 1)
  IN GenerateClusters(r2, els, LcsNew, 1)


\* ---------------------------------------------------------------------------
\* SpecLocal: build_clusters on one cell, the box scanner reporting the
\* touching pairs in any order and finishing an element after its last pair

MaxShapes == 4

CandShapes ==
  << [layer |-> 0, box |-> <<0, 0, 4, 2>>, attr |-> 0],
     [layer |-> 1, box |-> <<4, 0, 8, 2>>, attr |-> 1],
     [layer |-> 0, box |-> <<8, 0, 12, 2>>, attr |-> 2],
     [layer |-> 1, box |-> <<12, 0, 16, 2>>, attr |-> 0],
     [layer |-> 0, box |-> <<2, 2, 6, 4>>, attr |-> 1],
     [layer |-> 1, box |-> <<30, 0, 34, 2>>, attr |-> 2],
     [layer |-> 0, box |-> <<14, 1, 18, 3>>, attr |-> 0] >>

ConnChoices ==
  { ConnConnect2(ConnEmpty, 0, 1),
    ConnConnect1(ConnEmpty, 0),
    ConnConnect1(ConnConnect1(ConnEmpty, 0), 1),
    ConnConnect2(ConnConnect1(ConnConnect1(ConnEmpty, 0), 1), 0, 1) }

\* the shapes of a cell: the candidates picked by idx, in order
PickShapes(cands, S) == LET idx == SeqOfSet(S) IN [k \in DOMAIN idx |-> cands[idx[k]]]

InitLocal ==
  /\ \E S \in SUBSET (DOMAIN CandShapes), c \in ConnChoices :
       /\ Cardinality(S) <= MaxShapes
       /\ cb = [phase |-> "start", shapes |-> PickShapes(CandShapes, S), conn |-> c,
                els |-> <<>>, pending |-> {}, finished |-> {}, rec |-> RecNew, out |-> LcsNew]
  /\ sp = Idle /\ ic = Idle /\ it = Idle /\ hb = Idle /\ UnitIdle

\* build_clusters: the shapes are inserted into the scanner
CbInsert ==
  /\ cb.phase = "start"
  /\ LET els == ScannerElements(cb.shapes, cb.conn)
     IN cb' = [cb EXCEPT !.phase = "scan", !.els = els, !.pending = ScannerPairs(els)]
  /\ UNCHANGED <<sp, ic, it, hb, unitVars>>

\* the scanner reports a pair: cluster_building_receiver::add
CbAdd ==
  /\ cb.phase = "scan"
  /\ \E pr \in cb.pending, o \in BOOLEAN :
       LET s1 == IF o THEN pr[1] ELSE pr[2]
           s2 == IF o THEN pr[2] ELSE pr[1]
       IN cb' = [cb EXCEPT !.rec = RecAdd(cb.rec, cb.conn, cb.els, s1, s2),
                           !.pending = @ \ {pr}]
  /\ UNCHANGED <<sp, ic, it, hb, unitVars>>

\* the scanner is done with an element: cluster_building_receiver::finish
CbFinish ==
  /\ cb.phase = "scan"
  /\ \E s \in DOMAIN cb.els \ cb.finished :
       /\ \A pr \in cb.pending : pr[1] # s /\ pr[2] # s
       /\ cb' = [cb EXCEPT !.rec = RecFinish(cb.rec, s), !.finished = @ \cup {s}]
  /\ UNCHANGED <<sp, ic, it, hb, unitVars>>

\* generate_clusters after the scan
CbGenerate ==
  /\ cb.phase = "scan"
  /\ cb.finished = DOMAIN cb.els
  /\ cb' = [cb EXCEPT !.phase = "done",
                      !.out = GenerateClusters(cb.rec, cb.els, LcsNew, 1)]
  /\ UNCHANGED <<sp, ic, it, hb, unitVars>>

NextLocal == CbInsert \/ CbAdd \/ CbFinish \/ CbGenerate

SpecLocal == InitLocal /\ [][NextLocal]_vars

\* two elements of the scanner interact directly
CbLinked(i, j) ==
  ConnInteracts(cb.conn, cb.els[i].t, cb.els[i].p[1], cb.els[j].t, cb.els[j].p[1], TUnit)

RECURSIVE CbChain(_)
\* the elements linked to one of S by a chain of interacting shapes
CbChain(S) ==
  LET N == S \cup {j \in DOMAIN cb.els : \E i \in S : CbLinked(i, j) \/ CbLinked(j, i)}
  IN IF N = S THEN S ELSE CbChain(N)

\* the clusters of the result an element is in
CbClustersOf(i) ==
  {k \in DOMAIN cb.out.m_clusters :
     <<cb.els[i].p[1], cb.els[i].t>> \in BagToSet(cb.out.m_clusters[k].m_shapes)}

\* C2: after build_clusters every shape on a connectivity layer is in exactly
\* one local cluster, once; two shapes share a cluster iff a chain of pairwise
\* interacting shapes of the cell links them; a shape that interacts with
\* nothing is a cluster of its own.
C2_LocalClustersAreComponents ==
  cb.phase = "done" =>
    /\ \A i \in DOMAIN cb.shapes :
         cb.shapes[i].layer \in cb.conn.m_all_layers <=>
           \E k \in DOMAIN cb.els : cb.els[k].t[1] = i
    /\ \A i \in DOMAIN cb.els :
         /\ Cardinality(CbClustersOf(i)) = 1
         /\ \A k \in CbClustersOf(i) :
              CopiesIn(<<cb.els[i].p[1], cb.els[i].t>>, cb.out.m_clusters[k].m_shapes) = 1
    /\ \A i, j \in DOMAIN cb.els :
         (CbClustersOf(i) = CbClustersOf(j)) <=> (j \in CbChain({i}))
    /\ \A i \in DOMAIN cb.els :
         (\A j \in DOMAIN cb.els \ {i} : ~CbLinked(i, j)) =>
            \A k \in CbClustersOf(i) : cb.out.m_clusters[k].m_size = 1
    /\ \A k \in DOMAIN cb.out.m_clusters :
         /\ cb.out.m_clusters[k].m_id = k
         /\ cb.out.m_clusters[k].m_size = BagCardinality(cb.out.m_clusters[k].m_shapes)
         /\ cb.out.m_clusters[k].m_size > 0

\* a result with a cluster of four shapes, not all linked directly
C2_Witness ==
  /\ cb.phase = "done"
  /\ \E k \in DOMAIN cb.out.m_clusters : cb.out.m_clusters[k].m_size = 4
  /\ \E i, j \in DOMAIN cb.els :
       i # j /\ ~CbLinked(i, j) /\ CbClustersOf(i) = CbClustersOf(j)


\* ---------------------------------------------------------------------------
\* local_cluster::area_ratio and split_cluster.  The ratio bbox.area / sum of
\* the shapes' box areas is compared as a fraction; a threshold is an integer.

RECURSIVE AreaSum(_, _)
AreaSum(B, E) ==
  IF E = {} THEN 0
  ELSE LET e == CHOOSE y \in E : TRUE
       IN B[e] * BoxArea(e[2][2]) + AreaSum(B, E \ {e})

\* the sum of the box areas of the shapes (with their multiplicity)
LcShapeArea(cl) == AreaSum(cl.m_shapes, BagToSet(cl.m_shapes))

\* area_ratio () < max_area_ratio
AreaRatioLess(cl, max_area_ratio) ==
  LET bx == LcBBox(cl)
      a == LcShapeArea(cl)
  IN IF BoxIsEmpty(bx) \/ a = 0 THEN 0 < max_area_ratio
     ELSE BoxArea(bx) < max_area_ratio * a

RECURSIVE LcAddN(_, _, _, _)
\* add the n copies of a shape the flat iteration delivers
LcAddN(cl, s, la, n) == IF n = 0 THEN cl ELSE LcAddN(LcAdd(cl, s, la), s, la, n - 1)

RECURSIVE SplitDispatch(_, _, _, _, _, _)
\* the dispatch loop of split_cluster over the entries E of cl: <<a, b>>
SplitDispatch(cl, E, xthr, ythr, a, b) ==
  IF E = {} THEN <<a, b>>
  ELSE LET e == CHOOSE y \in E : TRUE
           sc == BoxCenter(e[2][2])
           n == cl.m_shapes[e]
       IN IF sc[1] < xthr \/ sc[2] < ythr
          THEN SplitDispatch(cl, E \ {e}, xthr, ythr, LcAddN(a, e[2], e[1], n), b)
          ELSE SplitDispatch(cl, E \ {e}, xthr, ythr, a, LcAddN(b, e[2], e[1], n))

RECURSIVE SplitClusterDropsB(_, _, _)
\* split_cluster that forgets to emit the unsplit second half
SplitClusterDropsB(cl, max_area_ratio, output) ==
  IF AreaRatioLess(cl, max_area_ratio) THEN [n |-> 0, output |-> output]
  ELSE
    LET bx == LcBBox(cl)
        wide == BoxWidth(bx) > BoxHeight(bx)
        xthr == IF wide THEN BoxCenter(bx)[1] ELSE bx[1]
        ythr == IF wide THEN bx[2] ELSE BoxCenter(bx)[2]
        ab == SplitDispatch(cl, BagToSet(cl.m_shapes), xthr, ythr, LcNew(cl.m_id), LcNew(cl.m_id))
    IN IF ab[1].m_size = 0 \/ ab[2].m_size = 0 THEN [n |-> 0, output |-> output]
       ELSE LET ra == SplitClusterDropsB(ab[1], max_area_ratio, output)
                rb == SplitClusterDropsB(ab[2], max_area_ratio, ra.output)
                oa == IF ra.n = 0 THEN Append(rb.output, ab[1]) ELSE rb.output
                na == IF ra.n = 0 THEN 1 ELSE ra.n
                nb == IF rb.n = 0 THEN 1 ELSE rb.n
            IN [n |-> na + nb, output |-> oa]

RECURSIVE SplitCluster(_, _, _)
\* split_cluster (cl, max_area_ratio, output): the count and the output list
SplitCluster(cl, max_area_ratio, output) ==
  IF AreaRatioLess(cl, max_area_ratio) THEN [n |-> 0, output |-> output]
  ELSE
    LET bx == LcBBox(cl)
        wide == BoxWidth(bx) > BoxHeight(bx)
        xthr == IF wide THEN BoxCenter(bx)[1] ELSE bx[1]
        ythr == IF wide THEN bx[2] ELSE BoxCenter(bx)[2]
        ab == SplitDispatch(cl, BagToSet(cl.m_shapes), xthr, ythr, LcNew(cl.m_id), LcNew(cl.m_id))
    IN IF ab[1].m_size = 0 \/ ab[2].m_size = 0 THEN [n |-> 0, output |-> output]
       ELSE LET ra == SplitCluster(ab[1], max_area_ratio, output)
                rb == SplitCluster(ab[2], max_area_ratio, ra.output)
                oa == IF ra.n = 0 THEN Append(rb.output, ab[1]) ELSE rb.output
                ob == IF rb.n = 0 THEN Append(oa, ab[2]) ELSE oa
                na == IF ra.n = 0 THEN 1 ELSE ra.n
                nb == IF rb.n = 0 THEN 1 ELSE rb.n
            IN [n |-> na + nb, output |-> ob]


\* ---------------------------------------------------------------------------
\* SpecSplit: a cluster is split and its fragments are joined again

MaxSplitShapes == 4

SplitCands ==
  << [layer |-> 0, box |-> <<0, 0, 2, 2>>, attr |-> 1],
     [layer |-> 0, box |-> <<10, 0, 12, 2>>, attr |-> 0],
     [layer |-> 1, box |-> <<0, 20, 2, 22>>, attr |-> 2],
     [layer |-> 1, box |-> <<10, 20, 12, 22>>, attr |-> 0],
     [layer |-> 0, box |-> <<5, 0, 7, 2>>, attr |-> 0],
     [layer |-> 1, box |-> <<4, 0, 8, 2>>, attr |-> 0],
     [layer |-> 0, box |-> <<0, 0, 12, 22>>, attr |-> 2] >>

AreaRatios == {0 - 1, 0, 2, 10}

\* a cluster holding the shapes (and attributes) picked by S
ClusterOf(id, cands, S) ==
  LET shapes == PickShapes(cands, S)
      els == [k \in DOMAIN shapes |-> [t |-> <<SeqOfSet(S)[k], shapes[k].box>>,
                                       p |-> <<shapes[k].layer, shapes[k].attr>>]]
  IN GenCluster(LcNew(id), els, [k \in DOMAIN els |-> k])

InitSplit ==
  /\ \E S \in SUBSET (DOMAIN SplitCands), r \in AreaRatios, id \in {1, 2} :
       /\ Cardinality(S) <= MaxSplitShapes
       /\ sp = [phase |-> "start", cl |-> ClusterOf(id, SplitCands, S), r |-> r,
                n |-> 0, output |-> <<>>, acc |-> LcNew(id), k |-> 0]
  /\ cb = Idle /\ ic = Idle /\ it = Idle /\ hb = Idle /\ UnitIdle

\* n = cl.split (r, output)
SpSplit ==
  /\ sp.phase = "start"
  /\ LET res == SplitCluster(sp.cl, sp.r, <<>>)
     IN sp' = [sp EXCEPT !.phase = "split", !.n = res.n, !.output = res.output]
  /\ UNCHANGED <<cb, ic, it, hb, unitVars>>

\* the next fragment is joined to the reassembled cluster: join_with
SpJoin ==
  /\ sp.phase = "split"
  /\ sp.k < Len(sp.output)
  /\ sp' = [sp EXCEPT !.acc = LcJoinWith(@, sp.output[sp.k + 1]), !.k = @ + 1]
  /\ UNCHANGED <<cb, ic, it, hb, unitVars>>

NextSplit == SpSplit \/ SpJoin

SpecSplit == InitSplit /\ [][NextSplit]_vars

SpReassembled == sp.phase = "split" /\ sp.n > 0 /\ sp.k = Len(sp.output)

\* C7 as stated: the reassembled fragments have the shapes and the attributes
\* of the original cluster, and every fragment has the original id.
C7_SplitRoundTripWithAttrs ==
  SpReassembled =>
    /\ sp.acc.m_shapes = sp.cl.m_shapes
    /\ sp.acc.m_attrs = sp.cl.m_attrs
    /\ \A i \in DOMAIN sp.output : sp.output[i].m_id = sp.cl.m_id

\* C7 amended: whenever split emits fragments, the fragments joined again hold
\* the original multiset of (shape, layer) entries and every fragment has the
\* original id; the fragments carry no attributes, so the reassembled
\* attribute set is empty.
C7_SplitRoundTrip ==
  /\ sp.phase = "split" =>
       /\ sp.n = Len(sp.output)
       /\ \A i \in DOMAIN sp.output :
            /\ sp.output[i].m_id = sp.cl.m_id
            /\ sp.output[i].m_attrs = {}
  /\ SpReassembled =>
       /\ sp.acc.m_shapes = sp.cl.m_shapes
       /\ sp.acc.m_size = sp.cl.m_size
       /\ sp.acc.m_attrs = {}

\* a cluster with attributes split into at least three fragments and joined again
C7_Witness ==
  /\ SpReassembled
  /\ sp.n >= 3
  /\ sp.cl.m_attrs # {}
  /\ \E e \in BagToSet(sp.cl.m_shapes) : sp.cl.m_shapes[e] = 1


\* ---------------------------------------------------------------------------
\* The layout (by contract).  layout.shapes[c] are the shapes of cell c,
\* layout.insts[c] its instances [cell |-> child, placements |-> displacements
\* of the array members].  A db::InstElement is <<parent cell, instance,
\* array member>>, a ClusterInstance is <<cluster id, InstElement>>.

Cells(layout) == DOMAIN layout.insts
\* inst_ptr.cell_index ()
InstCell(layout, ie) == layout.insts[ie[1]][ie[2]].cell
\* complex_trans (member)
InstTrans(layout, ie) == layout.insts[ie[1]][ie[2]].placements[ie[3]]
ChildCells(layout, c) == {layout.insts[c][i].cell : i \in DOMAIN layout.insts[c]}
ParentCells(layout, c) == {p \in Cells(layout) : c \in ChildCells(layout, p)}

RECURSIVE CalledFrom(_, _)
\* collect_called_cells, the cells of S included
CalledFrom(layout, S) ==
  LET N == S \cup UNION {ChildCells(layout, c) : c \in S}
  IN IF N = S THEN S ELSE CalledFrom(layout, N)

\* ---------------------------------------------------------------------------
\* incoming_cluster_connections.  conns[c] is the connections map of cell c
\* (begin_connections .. end_connections); st = [m_incoming, m_called_cells].

RECURSIVE IcPushAll(_, _, _, _, _)
\* the inner loop of ensure_computed_parent over one connection list
IcPushAll(layout, inc, ci, id, list) ==
  IF list = <<>> THEN inc
  ELSE LET xx == Head(list)
           cc == InstCell(layout, xx[2])
           m == MapGet(inc, cc, EmptyMap)
           m2 == MapPut(m, xx[1], Append(MapGet(m, xx[1], <<>>), <<ci, id, xx[2]>>))
       IN IcPushAll(layout, MapPut(inc, cc, m2), ci, id, Tail(list))

RECURSIVE IcScan(_, _, _, _, _)
\* the outer loop of ensure_computed_parent over the connections of cell ci
IcScan(layout, conns, inc, ci, ids) ==
  IF ids = <<>> THEN inc
  ELSE IcScan(layout, conns, IcPushAll(layout, inc, ci, Head(ids), conns[ci][Head(ids)]),
              ci, Tail(ids))

RECURSIVE EnsureComputed(_, _, _, _)
RECURSIVE EnsureComputedParents(_, _, _, _)

\* ensure_computed_parent (ci)
EnsureComputedParent(layout, conns, st, ci) ==
  LET s1 == EnsureComputed(layout, conns, st, ci)
  IN [s1 EXCEPT !.m_incoming =
        IcScan(layout, conns, @, ci, SeqOfSet(DOMAIN MapGet(conns, ci, EmptyMap)))]

\* the loop of ensure_computed over the parent cells pcs
EnsureComputedParents(layout, conns, st, pcs) ==
  IF pcs = <<>> THEN st
  ELSE EnsureComputedParents(layout, conns,
         IF Head(pcs) \in st.m_called_cells
         THEN EnsureComputedParent(layout, conns, st, Head(pcs))
         ELSE st,
         Tail(pcs))

\* ensure_computed (ci)
EnsureComputed(layout, conns, st, ci) ==
  LET s1 == IF ci \in DOMAIN st.m_incoming THEN st
            ELSE [st EXCEPT !.m_incoming = MapPut(@, ci, EmptyMap)]
      s2 == EnsureComputedParents(layout, conns, s1, SeqOfSet(ParentCells(layout, ci)))
  IN [s2 EXCEPT !.m_called_cells = @ \ {ci}]

\* the first lines of has_incoming and incoming
IcLookup(layout, conns, st, ci) ==
  IF ci \in DOMAIN st.m_incoming THEN st ELSE EnsureComputed(layout, conns, st, ci)

\* ---------------------------------------------------------------------------
\* SpecIncoming: queries on one incoming_cluster_connections object

MaxQueries == 3

\* the first dummy id insert_dummy hands out
IcDummy == SizeMax

IcLayout ==
  [shapes |-> [c \in 1..4 |-> <<>>],
   insts |-> [c \in 1..4 |->
      CASE c = 1 -> <<>>
        [] c = 2 -> <<[cell |-> 1, placements |-> <<TUnit, <<10, 0>>>>]>>
        [] c = 3 -> <<[cell |-> 2, placements |-> <<TUnit>>],
                      [cell |-> 1, placements |-> <<<<0, 10>>>>]>>
        [] c = 4 -> <<[cell |-> 1, placements |-> <<TUnit>>]>>]]

\* the connections each cell may hold
IcConnChoices(c) ==
  CASE c = 2 -> { EmptyMap,
                  (1 :> << <<1, <<2, 1, 1>>>> >>) @@ (IcDummy :> << <<1, <<2, 1, 2>>>> >>),
                  (1 :> << <<1, <<2, 1, 1>>>>, <<2, <<2, 1, 2>>>> >>) }
    [] c = 3 -> { EmptyMap,
                  (1 :> << <<1, <<3, 1, 1>>>>, <<1, <<3, 2, 1>>>> >>),
                  (IcDummy :> << <<IcDummy, <<3, 1, 1>>>> >>) }
    [] c = 4 -> { EmptyMap, (IcDummy :> << <<1, <<4, 1, 1>>>> >>) }
    [] OTHER -> { EmptyMap }

InitIncoming ==
  /\ \E c2 \in IcConnChoices(2), c3 \in IcConnChoices(3), c4 \in IcConnChoices(4),
        top \in {2, 3} :
       ic = [phase |-> "ready", layout |-> IcLayout, top |-> top,
             conns |-> (1 :> EmptyMap) @@ (2 :> c2) @@ (3 :> c3) @@ (4 :> c4),
             m_called_cells |-> CalledFrom(IcLayout, {top}),
             m_incoming |-> EmptyMap,
             nq |-> 0, last |-> [kind |-> "none"]]
  /\ cb = Idle /\ sp = Idle /\ it = Idle /\ hb = Idle /\ UnitIdle

\* has_incoming (ci, cluster_id)
IcHasIncoming ==
  /\ ic.phase = "ready" /\ ic.nq < MaxQueries
  /\ \E ci \in Cells(ic.layout), id \in {1, 2, IcDummy} :
       LET st == IcLookup(ic.layout, ic.conns,
                          [m_incoming |-> ic.m_incoming, m_called_cells |-> ic.m_called_cells], ci)
       IN ic' = [ic EXCEPT !.m_incoming = st.m_incoming,
                           !.m_called_cells = st.m_called_cells,
                           !.nq = @ + 1,
                           !.last = [kind |-> "has_incoming", ci |-> ci, id |-> id,
                                     result |-> id \in DOMAIN st.m_incoming[ci]]]
  /\ UNCHANGED <<cb, sp, it, hb, unitVars>>

\* incoming (ci, cluster_id)
IcIncoming ==
  /\ ic.phase = "ready" /\ ic.nq < MaxQueries
  /\ \E ci \in Cells(ic.layout), id \in {1, 2, IcDummy} :
       LET st == IcLookup(ic.layout, ic.conns,
                          [m_incoming |-> ic.m_incoming, m_called_cells |-> ic.m_called_cells], ci)
       IN ic' = [ic EXCEPT !.m_incoming = st.m_incoming,
                           !.m_called_cells = st.m_called_cells,
                           !.nq = @ + 1,
                           !.last = [kind |-> "incoming", ci |-> ci, id |-> id,
                                     result |-> MapGet(st.m_incoming[ci], id, <<>>)]]
  /\ UNCHANGED <<cb, sp, it, hb, unitVars>>

NextIncoming == IcHasIncoming \/ IcIncoming

SpecIncoming == InitIncoming /\ [][NextIncoming]_vars

\* the triples (parent cell, parent cluster, placement) that refer to cluster
\* id of cell ci from a cell called from the top cell
IcExpected(ci, id) ==
  LET PP == UNION {{<<pc, pid>> : pid \in DOMAIN ic.conns[pc]} :
                   pc \in CalledFrom(ic.layout, {ic.top})}
      All == UNION {{<<pp[1], pp[2], e[2]>> :
                       e \in {x \in Range(ic.conns[pp[1]][pp[2]]) : x[1] = id}} : pp \in PP}
  IN {tr \in All : InstCell(ic.layout, tr[3]) = ci}

\* C3: after any sequence of queries, incoming (ci, id) returns exactly the
\* triples (parent cell, parent cluster, placement) of the cells called from
\* the top cell whose connections hold ClusterInstance (id, placement) with
\* the placement instantiating ci, each once, and has_incoming is true iff
\* there is such a triple.
C3_IncomingIsInverse ==
  /\ ic.phase = "ready" /\ ic.last.kind = "incoming" =>
       /\ Range(ic.last.result) = IcExpected(ic.last.ci, ic.last.id)
       /\ Len(ic.last.result) = Cardinality(IcExpected(ic.last.ci, ic.last.id))
  /\ ic.phase = "ready" /\ ic.last.kind = "has_incoming" =>
       (ic.last.result <=> IcExpected(ic.last.ci, ic.last.id) # {})

\* ---------------------------------------------------------------------------
\* connected_clusters: local_clusters plus m_connections (id -> list of
\* ClusterInstance), m_rev_connections (ClusterInstance -> id) and
\* m_connected_clusters (the ids that are no longer root)

CcNew ==
  [m_clusters |-> <<>>, m_next_dummy_id |-> 0, m_connections |-> EmptyMap,
   m_rev_connections |-> EmptyMap, m_connected_clusters |-> {}]

CcConnectionsFor(cc, id) == MapGet(cc.m_connections, id, <<>>)

CcAddConnection(cc, id, inst) ==
  [cc EXCEPT !.m_connections = MapPut(@, id, Append(MapGet(@, id, <<>>), inst)),
             !.m_rev_connections = MapPut(@, inst, id)]

CcFind(cc, inst) == MapGet(cc.m_rev_connections, inst, 0)

\* join_cluster_with that moves the edges but leaves m_rev_connections as it is
CcJoinKeepsRev(cc, id, with_id) ==
  IF id = with_id THEN cc
  ELSE [LcsJoinClusterWith(cc, id, with_id) EXCEPT
          !.m_connections =
             MapErase(MapPut(@, id, MapGet(@, id, <<>>) \o MapGet(@, with_id, <<>>)), with_id)]

CcJoinClusterWith(cc, id, with_id) ==
  IF id = with_id THEN cc
  ELSE LET c1 == LcsJoinClusterWith(cc, id, with_id)
           to_join == CcConnectionsFor(c1, with_id)
           target == MapGet(c1.m_connections, id, <<>>) \o to_join
       IN [c1 EXCEPT !.m_connections = MapErase(MapPut(@, id, target), with_id),
                     !.m_rev_connections =
                        [x \in DOMAIN @ |-> IF x \in Range(to_join) THEN id ELSE @[x]]]

CcIsRoot(cc, id) == id \notin cc.m_connected_clusters
CcResetRoot(cc, id) == [cc EXCEPT !.m_connected_clusters = @ \cup {id}]

\* hier_clusters::clusters_per_cell (const): m_per_cell_clusters or the empty one
HcClustersPerCell(hc, ci) == MapGet(hc, ci, CcNew)

\* ---------------------------------------------------------------------------
\* recursive_cluster_shape_iterator.  A connection iterator is [cell, id, pos]:
\* position pos in the connection list of cluster id of the cell; the shape
\* iterator is [shapes, pos].  The product of transformations is kept as the
\* word of the placements so that the order of the factors stays visible.

ItTrans(ie) == <<ie>>
ItConnList(hc, ci) == CcConnectionsFor(HcClustersPerCell(hc, ci.cell), ci.id)
ItConnAtEnd(hc, ci) == ci.pos > Len(ItConnList(hc, ci))
ItShapeAtEnd(x) == x.m_shape_iter.pos > Len(x.m_shape_iter.shapes)

RECURSIVE BagSeq(_, _)
\* the flat iteration of a bag of shapes: by sid, each copy
BagSeq(B, E) ==
  IF E = {} THEN <<>>
  ELSE LET e == CHOOSE y \in E : \A z \in E : y[1] <= z[1]
       IN [i \in 1..B[e] |-> e] \o BagSeq(B, E \ {e})

\* cluster_id ()
ItClusterId(hc, x) ==
  IF Len(x.m_conn_iter_stack) <= 1 THEN x.m_id
  ELSE LET f == x.m_conn_iter_stack[Len(x.m_conn_iter_stack) - 1]
       IN ItConnList(hc, f)[f.pos][1]

\* down (ci, id, t)
ItDown(hc, x, ci, id, t) ==
  LET x1 == [x EXCEPT
               !.m_trans_stack = IF @ # <<>> THEN Append(@, @[Len(@)] \o t) ELSE <<t>>,
               !.m_cell_index_stack = Append(@, ci),
               !.m_conn_iter_stack = Append(@, [cell |-> ci, id |-> id, pos |-> 1])]
      cluster == LcsClusterById(HcClustersPerCell(hc, ci), ItClusterId(hc, x1))
      B == LcShapesOn(cluster, x.m_layer)
  IN [x1 EXCEPT !.m_shape_iter = [shapes |-> BagSeq(B, DOMAIN B), pos |-> 1]]

\* up ()
ItUp(x) ==
  [x EXCEPT !.m_conn_iter_stack = SubSeq(@, 1, Len(@) - 1),
            !.m_trans_stack = SubSeq(@, 1, Len(@) - 1),
            !.m_cell_index_stack = SubSeq(@, 1, Len(@) - 1)]

RECURSIVE ItUnwind(_, _)
\* the while loop of next_conn
ItUnwind(hc, x) ==
  IF ~ItConnAtEnd(hc, x.m_conn_iter_stack[Len(x.m_conn_iter_stack)]) THEN x
  ELSE LET x1 == ItUp(x)
       IN IF x1.m_conn_iter_stack = <<>> THEN x1
          ELSE ItUnwind(hc, [x1 EXCEPT !.m_conn_iter_stack[Len(x1.m_conn_iter_stack)].pos = @ + 1])

\* next_conn () that steps over the next connection instead of entering it
ItNextConnSkips(hc, x) ==
  LET back == x.m_conn_iter_stack[Len(x.m_conn_iter_stack)]
  IN IF ~ItConnAtEnd(hc, back)
     THEN ItUnwind(hc, [x EXCEPT !.m_conn_iter_stack[Len(x.m_conn_iter_stack)].pos = @ + 1])
     ELSE ItUnwind(hc, x)

\* next_conn ()
ItNextConn(hc, x) ==
  LET back == x.m_conn_iter_stack[Len(x.m_conn_iter_stack)]
  IN IF ~ItConnAtEnd(hc, back)
     THEN LET cli == ItConnList(hc, back)[back.pos]
          IN ItDown(hc, x, InstCell(x.layout, cli[2]), cli[1], ItTrans(cli[2]))
     ELSE ItUnwind(hc, x)

RECURSIVE ItSettle(_, _)
\* while (m_shape_iter.at_end () && ! m_conn_iter_stack.empty ()) next_conn ()
ItSettle(hc, x) ==
  IF ItShapeAtEnd(x) /\ x.m_conn_iter_stack # <<>>
  THEN ItSettle(hc, ItNextConn(hc, x))
  ELSE x

\* the constructor
ItCreate(hc, layout, layer, ci, id) ==
  ItSettle(hc, ItDown(hc, [layout |-> layout, m_layer |-> layer, m_id |-> id,
                           m_cell_index_stack |-> <<>>, m_trans_stack |-> <<>>,
                           m_conn_iter_stack |-> <<>>,
                           m_shape_iter |-> [shapes |-> <<>>, pos |-> 1]],
                      ci, id, <<>>))

\* operator++
ItIncr(hc, x) == ItSettle(hc, [x EXCEPT !.m_shape_iter.pos = @ + 1])

\* operator*, trans () and inst_path ()
ItShape(x) == x.m_shape_iter.shapes[x.m_shape_iter.pos]
ItTransTop(x) == x.m_trans_stack[Len(x.m_trans_stack)]
ItInstPath(hc, x) ==
  [i \in 1..(Len(x.m_conn_iter_stack) - 1) |->
     ItConnList(hc, x.m_conn_iter_stack[i])[x.m_conn_iter_stack[i].pos]]


\* ---------------------------------------------------------------------------
\* SpecIter: a recursive_cluster_shape_iterator is created and stepped to its end

MaxDelivered == 12

\* a cluster with the given shapes <<layer, T>>
ItCluster(id, S) == [LcNew(id) EXCEPT !.m_shapes = SetToBag(S), !.m_size = Cardinality(S)]

ItClusterChoices(c) ==
  CASE c = 1 -> { << ItCluster(1, {<<0, <<1, <<0, 0, 4, 2>>>>>>, <<0, <<2, <<4, 0, 8, 2>>>>>>}),
                     ItCluster(2, {<<1, <<3, <<0, 5, 4, 7>>>>>>}) >>,
                  << ItCluster(1, {<<1, <<1, <<0, 0, 4, 2>>>>>>}), ItCluster(2, {}) >> }
    [] c = 2 -> { <<>>, << ItCluster(1, {<<0, <<1, <<0, 2, 4, 4>>>>>>}) >> }
    [] c = 3 -> { <<>>, << ItCluster(1, {<<0, <<1, <<0, 4, 4, 6>>>>>>, <<1, <<2, <<9, 9, 10, 10>>>>>>}) >> }
    [] OTHER -> { <<>> }

ItHc(cl, cn) ==
  [c \in 1..3 |-> [CcNew EXCEPT !.m_clusters = cl[c], !.m_connections = cn[c]]]

InitIter ==
  /\ \E cl \in [1..3 -> UNION {ItClusterChoices(c) : c \in 1..3}],
        cn \in [1..3 -> UNION {IcConnChoices(c) : c \in 1..3}],
        ci \in 1..3, id \in {1, 2, IcDummy}, layer \in {0, 1} :
       /\ \A c \in 1..3 : cl[c] \in ItClusterChoices(c) /\ cn[c] \in IcConnChoices(c)
       /\ it = [phase |-> "new", hc |-> ItHc(cl, cn), layout |-> IcLayout,
                layer |-> layer, ci |-> ci, id |-> id,
                iter |-> [m_conn_iter_stack |-> <<>>], seen |-> <<>>]
  /\ cb = Idle /\ sp = Idle /\ ic = Idle /\ hb = Idle /\ UnitIdle

\* recursive_cluster_shape_iterator (hc, layer, ci, id)
ItConstruct ==
  /\ it.phase = "new"
  /\ it' = [it EXCEPT !.phase = "iter",
                      !.iter = ItCreate(it.hc, it.layout, it.layer, it.ci, it.id)]
  /\ UNCHANGED <<cb, sp, ic, hb, unitVars>>

\* the caller reads *iter, trans () and inst_path () and steps with ++iter
ItStep ==
  /\ it.phase = "iter"
  /\ ~ItShapeAtEnd(it.iter)
  /\ Len(it.seen) < MaxDelivered
  /\ it' = [it EXCEPT !.seen = Append(@, [shape |-> ItShape(it.iter),
                                          trans |-> ItTransTop(it.iter),
                                          path |-> ItInstPath(it.hc, it.iter),
                                          cell |-> it.iter.m_cell_index_stack[Len(it.iter.m_cell_index_stack)]]),
                      !.iter = ItIncr(it.hc, it.iter)]
  /\ UNCHANGED <<cb, sp, ic, hb, unitVars>>

NextIter == ItConstruct \/ ItStep

SpecIter == InitIter /\ [][NextIter]_vars

RECURSIVE ItChains(_, _, _, _)
\* the chains of connection edges from cluster id of cell ci, as words of
\* placements, each with the cell and the cluster it ends in; d bounds the depth
ItChains(hc, ci, id, d) ==
  {[word |-> <<>>, edges |-> <<>>, cell |-> ci, id |-> id]} \cup
  (IF d = 0 THEN {}
   ELSE UNION {{[word |-> <<e[2]>> \o ch.word, edges |-> <<e>> \o ch.edges,
                 cell |-> ch.cell, id |-> ch.id] :
                  ch \in ItChains(hc, InstCell(it.layout, e[2]), e[1], d - 1)} :
               e \in Range(CcConnectionsFor(HcClustersPerCell(hc, ci), id))})

\* what the iteration has to deliver: per chain the shapes of the layer of
\* the cluster the chain ends in, with the chain's word as transformation
ItExpected ==
  UNION {{[shape |-> t, trans |-> ch.word, path |-> ch.edges, cell |-> ch.cell] :
            t \in DOMAIN LcShapesOn(LcsClusterById(HcClustersPerCell(it.hc, ch.cell), ch.id),
                                    it.layer)} :
         ch \in ItChains(it.hc, it.ci, it.id, 3)}

\* C6: stepping the shape iterator to its end yields, for every chain of
\* connection edges from the start cluster, each shape of the layer of the
\* cluster at the chain's end exactly once, with trans () the product of the
\* placement transformations along the chain in order, and nothing else; the
\* number of steps is the sum of the per-frame cluster sizes on the layer.
C6_ShapeIteratorComplete ==
  /\ it.phase = "iter" =>
       /\ Range(it.seen) \subseteq ItExpected
       /\ \A i, j \in DOMAIN it.seen : i # j => it.seen[i] # it.seen[j]
       /\ ~ItShapeAtEnd(it.iter) =>
            [shape |-> ItShape(it.iter), trans |-> ItTransTop(it.iter),
             path |-> ItInstPath(it.hc, it.iter),
             cell |-> it.iter.m_cell_index_stack[Len(it.iter.m_cell_index_stack)]]
               \in ItExpected \ Range(it.seen)
  /\ it.phase = "iter" /\ ItShapeAtEnd(it.iter) =>
       /\ Range(it.seen) = ItExpected
       /\ Len(it.seen) = Cardinality(ItExpected)
       /\ it.iter.m_conn_iter_stack = <<>>

\* an iteration that went two levels down and delivered shapes of three cells
C6_Witness ==
  /\ it.phase = "iter" /\ ItShapeAtEnd(it.iter)
  /\ \E i \in DOMAIN it.seen : Len(it.seen[i].trans) = 2
  /\ Cardinality({it.seen[i].cell : i \in DOMAIN it.seen}) = 3
  /\ Len(it.seen) >= 4

\* ---------------------------------------------------------------------------
\* The layout queries the stitching uses (by contract).  An instance (a
\* db::Instance) is <<cell, index>>: instance number index of the cell.

RECURSIVE FoldSeq(_, _, _)
\* a loop over the sequence s with the loop body Op (state, element); the
\* state is compared with itself to have it evaluated round by round
FoldSeq(Op(_, _), acc, s) ==
  IF s = <<>> \/ acc # acc THEN acc ELSE FoldSeq(Op, Op(acc, Head(s)), Tail(s))

InstOf(layout, i) == layout.insts[i[1]][i[2]]

\* the bounding box of an array whose members place the box bx
ArrayBBox(inst, bx) == BoxOfSet({BoxTrans(bx, inst.placements[k]) : k \in DOMAIN inst.placements})

RECURSIVE CellBBoxOn(_, _, _)
\* cell.bbox (layer) for the layers L together, child cells included
CellBBoxOn(layout, c, L) ==
  BoxPlus(BoxOfSet({layout.shapes[c][k].box :
                      k \in {j \in DOMAIN layout.shapes[c] : layout.shapes[c][j].layer \in L}}),
          BoxOfSet({ArrayBBox(layout.insts[c][k], CellBBoxOn(layout, layout.insts[c][k].cell, L)) :
                      k \in DOMAIN layout.insts[c]}))

LayoutLayers(layout) ==
  UNION {{layout.shapes[c][k].layer : k \in DOMAIN layout.shapes[c]} : c \in Cells(layout)}

\* cell.bbox ()
CellBBox(layout, c) == CellBBoxOn(layout, c, LayoutLayers(layout))

\* i.begin_touching (box, layout): the array members whose cell box touches box
InstTouching(layout, i, box) ==
  SeqOfSet({k \in DOMAIN InstOf(layout, i).placements :
              BoxTouches(BoxTrans(CellBBox(layout, InstOf(layout, i).cell),
                                  InstOf(layout, i).placements[k]), box)})

\* cell.begin_touching (box): the instances of cell c whose box touches box
CellTouching(layout, c, box) ==
  SeqOfSet({k \in DOMAIN layout.insts[c] :
              BoxTouches(ArrayBBox(layout.insts[c][k], CellBBox(layout, layout.insts[c][k].cell)), box)})

\* child_cell.begin_parent_insts () with the array members of each: the
\* placements <<parent cell, instance, member>> of cell c
ParentInsts(layout, c) ==
  LET P == {ie \in UNION {UNION {{<<pc, k, m>> : m \in DOMAIN layout.insts[pc][k].placements} :
                                   k \in DOMAIN layout.insts[pc]} : pc \in Cells(layout)} :
              InstCell(layout, ie) = c}
      key(ie) == (ie[1] * 16 + ie[2]) * 16 + ie[3]
      keys == SeqOfSet({key(ie) : ie \in P})
  IN [n \in DOMAIN keys |-> CHOOSE ie \in P : key(ie) = keys[n]]

\* local_cluster::interacts (cell, trans, conn)
LcInteractsCell(cl, layout, c, trans, conn) ==
  \E s \in LcLayers(cl) :
     LET box == CellBBoxOn(layout, c, ConnConnected(conn, s))
     IN ~BoxIsEmpty(box) /\ LcTouching(cl, s, BoxTrans(box, trans)) # {}

\* local_cluster::interacts (other, trans, conn)
LcInteractsCluster(cl, other, trans, conn) ==
  LET common == BoxAnd(BoxTrans(LcBBox(other), trans), LcBBox(cl))
      common_for_other == BoxTrans(common, TInv(trans))
      ll1 == {l \in LcLayers(cl) : LcTouching(cl, l, common) # {}}
      ll2 == {l \in LcLayers(other) : LcTouching(other, l, common_for_other) # {}}
  IN IF BoxIsEmpty(common) \/ ll1 = {} \/ ll2 = {} THEN FALSE
     ELSE IF ~\E i \in ll1 : \E j \in ConnConnected(conn, i) : j \in ll2 THEN FALSE
     ELSE \E l1 \in ll1, l2 \in ll2 :
            \E s1 \in LcTouching(cl, l1, common), s2 \in LcTouching(other, l2, common_for_other) :
               /\ BoxTouches(s1[2], BoxTrans(s2[2], trans))
               /\ ConnInteracts(conn, s1, l1, s2, l2, trans)

\* ---------------------------------------------------------------------------
\* cell_clusters_box_converter: the box of the clusters of a cell, child
\* cells included

RECURSIVE CbcBox(_, _, _)
CbcBox(layout, tree, c) ==
  BoxPlus(LcsBBox(HcClustersPerCell(tree, c)),
          BoxOfSet({ArrayBBox(layout.insts[c][k], CbcBox(layout, tree, layout.insts[c][k].cell)) :
                      k \in DOMAIN layout.insts[c]}))

\* ---------------------------------------------------------------------------
\* hc_receiver.  cx = [layout, conn, cell] are mp_layout, mp_conn and the index
\* of mp_cell; rs is what the receiver changes: rs.tree is m_per_cell_clusters
\* of mp_tree (mp_cell_clusters is rs.tree[cx.cell]), rs.order is the list
\* m_cm2join_sets as list nodes, rs.sets the set of each node, rs.jm is
\* m_cm2join_map and rs.nn the number of nodes made so far.  rs.aborted tells
\* that a tl_assert has failed and rs.ups how often make_path has taken the
\* dummy of its promotion loop as the next id.  Locals of the receiver's functions are kept
\* in rs as well: rs.id_new of make_path, rs.ret the ClusterInstances that
\* the calls of make_path returned, rs.any of add_single_inst.

\* hier_clusters::clusters_per_cell (non-const)
TreeGet(tree, c) == MapGet(tree, c, CcNew)

\* the promotion loops that hang the edge on the newest dummy of the parent
\* cell where it has one, instead of a new dummy
HcPromoteReuses(rs, layout, id, p, cell0, skip) ==
  [FoldSeq(LAMBDA acc, ie :
             IF skip /\ ie = p THEN acc
             ELSE IF TreeGet(acc.tree, ie[1]).m_next_dummy_id = 0
             THEN [acc EXCEPT !.tree = MapPut(@, ie[1],
                                  CcAddConnection(LcsInsertDummy(TreeGet(acc.tree, ie[1])),
                                                  LcsInsertDummy(TreeGet(acc.tree, ie[1])).m_next_dummy_id,
                                                  <<id, ie>>)),
                               !.id_new = IF ie = p
                                          THEN LcsInsertDummy(TreeGet(acc.tree, ie[1])).m_next_dummy_id
                                          ELSE @]
             ELSE [acc EXCEPT !.tree = MapPut(@, ie[1],
                                  CcAddConnection(TreeGet(acc.tree, ie[1]),
                                                  TreeGet(acc.tree, ie[1]).m_next_dummy_id, <<id, ie>>)),
                               !.id_new = IF ie = p THEN TreeGet(acc.tree, ie[1]).m_next_dummy_id ELSE @],
           [rs EXCEPT !.id_new = 0], ParentInsts(layout, InstCell(layout, p)))
     EXCEPT !.tree = MapPut(@, InstCell(layout, p),
                            CcResetRoot(TreeGet(@, InstCell(layout, p)), id))]

\* the promotion loops that leave the placement p of cell0 out in both places
HcPromoteSkipsAlways(rs, layout, id, p, cell0, skip) ==
  [FoldSeq(LAMBDA acc, ie :
             IF ie[1] = cell0 /\ ie = p THEN acc
             ELSE [acc EXCEPT !.tree = MapPut(@, ie[1],
                                  CcAddConnection(LcsInsertDummy(TreeGet(acc.tree, ie[1])),
                                                  LcsInsertDummy(TreeGet(acc.tree, ie[1])).m_next_dummy_id,
                                                  <<id, ie>>))],
           [rs EXCEPT !.id_new = 0], ParentInsts(layout, InstCell(layout, p)))
     EXCEPT !.tree = MapPut(@, InstCell(layout, p),
                            CcResetRoot(TreeGet(@, InstCell(layout, p)), id))]

\* the promotion loops without reset_root
HcPromoteNoReset(rs, layout, id, p, cell0, skip) ==
  FoldSeq(LAMBDA acc, ie :
            IF skip /\ ie = p THEN acc
            ELSE [acc EXCEPT !.tree = MapPut(@, ie[1],
                                 CcAddConnection(LcsInsertDummy(TreeGet(acc.tree, ie[1])),
                                                 LcsInsertDummy(TreeGet(acc.tree, ie[1])).m_next_dummy_id,
                                                 <<id, ie>>)),
                              !.id_new = IF ie = p
                                         THEN LcsInsertDummy(TreeGet(acc.tree, ie[1])).m_next_dummy_id
                                         ELSE @],
          [rs EXCEPT !.id_new = 0], ParentInsts(layout, InstCell(layout, p)))

\* make_path, the promotion loops: every placement ie of the cell that p
\* instantiates gets a dummy with the edge (id, ie) in its parent cell; with
\* skip the placement p of cell0 is left out, without it the dummy made for
\* p in cell0 is id_new
HcPromote(rs, layout, id, p, cell0, skip) ==
  LET child == InstCell(layout, p)
      step(acc, ie) ==
        LET match == ie[1] = cell0 /\ <<id, ie>> = <<id, p>>
            cc1 == LcsInsertDummy(TreeGet(acc.tree, ie[1]))
            id_dummy == cc1.m_next_dummy_id
        IN IF skip /\ match THEN acc
           ELSE [acc EXCEPT !.tree = MapPut(@, ie[1], CcAddConnection(cc1, id_dummy, <<id, ie>>)),
                            !.id_new = IF match THEN id_dummy ELSE @]
  IN [FoldSeq(step, [rs EXCEPT !.id_new = 0], ParentInsts(layout, child))
        EXCEPT !.tree = MapPut(@, child, CcResetRoot(TreeGet(@, child), id))]

RECURSIVE MakePathFrom(_, _, _, _, _)
RECURSIVE MakePathUp(_, _, _, _)

\* make_path, line 1433: id = id_new; tl_assert (id != 0)
MakePathUp(rs, cx, path, n) ==
  MakePathFrom([rs EXCEPT !.aborted = @ \/ rs.id_new = 0, !.ups = @ + 1],
               cx, rs.id_new, path, n)

\* make_path that attaches the cluster at the end of the path to the first
\* placement of the path, whatever the length of the path
MakePathFromSkips(rs, cx, id, path, n) == [rs EXCEPT !.ret = Append(@, <<id, path[1]>>)]

\* make_path with p at path[n]; the ClusterInstance returned is appended to rs.ret
MakePathFrom(rs, cx, id, path, n) ==
  LET p == path[n]
      child == InstCell(cx.layout, p)
      is_root == CcIsRoot(TreeGet(rs.tree, child), id)
      pci == InstCell(cx.layout, path[n - 1])
      parent_cluster == CcFind(TreeGet(rs.tree, pci), <<id, p>>)
  IN IF n = 1
     THEN [IF is_root THEN HcPromote(rs, cx.layout, id, p, cx.cell, TRUE) ELSE rs
             EXCEPT !.ret = Append(@, <<id, p>>)]
     ELSE IF parent_cluster > 0
     THEN MakePathFrom(rs, cx, parent_cluster, path, n - 1)
     ELSE MakePathUp(IF is_root THEN HcPromote(rs, cx.layout, id, p, pci, FALSE)
                     ELSE [rs EXCEPT !.id_new = 0],
                     cx, path, n - 1)

MakePath(rs, cx, id, path) == MakePathFrom(rs, cx, id, path, Len(path))

\* mark_to_join (a, b) that leaves the set of b in the list when it joins two
\* superclusters
MarkToJoinKeepsSet(rs, a, b) ==
  IF a \notin DOMAIN rs.jm THEN
    IF b \notin DOMAIN rs.jm THEN
      [rs EXCEPT !.nn = @ + 1,
                 !.order = Append(@, rs.nn + 1),
                 !.sets = MapPut(@, rs.nn + 1, {a, b}),
                 !.jm = MapPut(MapPut(@, a, rs.nn + 1), b, rs.nn + 1)]
    ELSE [rs EXCEPT !.sets[rs.jm[b]] = @ \cup {a}, !.jm = MapPut(@, a, rs.jm[b])]
  ELSE IF b \notin DOMAIN rs.jm THEN
    [rs EXCEPT !.sets[rs.jm[a]] = @ \cup {b}, !.jm = MapPut(@, b, rs.jm[a])]
  ELSE IF rs.jm[a] # rs.jm[b] THEN
    [rs EXCEPT !.sets[rs.jm[a]] = @ \cup rs.sets[rs.jm[b]],
               !.jm = [i \in DOMAIN @ |-> IF i \in rs.sets[rs.jm[b]] THEN rs.jm[a] ELSE @[i]]]
  ELSE rs

\* mark_to_join (a, b)
MarkToJoin(rs, a, b) ==
  IF a \notin DOMAIN rs.jm THEN
    IF b \notin DOMAIN rs.jm THEN
      [rs EXCEPT !.nn = @ + 1,
                 !.order = Append(@, rs.nn + 1),
                 !.sets = MapPut(@, rs.nn + 1, {a, b}),
                 !.jm = MapPut(MapPut(@, a, rs.nn + 1), b, rs.nn + 1)]
    ELSE [rs EXCEPT !.sets[rs.jm[b]] = @ \cup {a}, !.jm = MapPut(@, a, rs.jm[b])]
  ELSE IF b \notin DOMAIN rs.jm THEN
    [rs EXCEPT !.sets[rs.jm[a]] = @ \cup {b}, !.jm = MapPut(@, b, rs.jm[a])]
  ELSE IF rs.jm[a] # rs.jm[b] THEN
    \* join two superclusters
    [rs EXCEPT !.sets = MapErase([@ EXCEPT ![rs.jm[a]] = @ \cup rs.sets[rs.jm[b]]], rs.jm[b]),
               !.jm = [i \in DOMAIN @ |-> IF i \in rs.sets[rs.jm[b]] THEN rs.jm[a] ELSE @[i]],
               !.order = SelectSeq(@, LAMBDA n : n # rs.jm[b])]
  ELSE rs

\* join_superclusters () that joins each set into its last member
JoinSuperclustersIntoLast(rs, cx) ==
  FoldSeq(LAMBDA r, sc :
            IF rs.sets[sc] = {} THEN r
            ELSE FoldSeq(LAMBDA q, cc :
                           [q EXCEPT !.tree[cx.cell] =
                              CcJoinClusterWith(@, SeqOfSet(rs.sets[sc])[Cardinality(rs.sets[sc])], cc)],
                         r, SubSeq(SeqOfSet(rs.sets[sc]), 1, Cardinality(rs.sets[sc]) - 1)),
          rs, rs.order)

\* join_superclusters ()
JoinSuperclusters(rs, cx) ==
  FoldSeq(LAMBDA r, sc :
            IF rs.sets[sc] = {} THEN r
            ELSE FoldSeq(LAMBDA q, cc :
                           [q EXCEPT !.tree[cx.cell] =
                              CcJoinClusterWith(@, Head(SeqOfSet(rs.sets[sc])), cc)],
                         r, Tail(SeqOfSet(rs.sets[sc]))),
          rs, rs.order)

\* lines 1090 to 1120 with the first branch only: two edges without owner get
\* a connector, an edge whose partner has an owner is left alone
HcAttachFreshOnly(rs, cx) ==
  IF CcFind(rs.tree[cx.cell], rs.ret[1]) # 0 \/ CcFind(rs.tree[cx.cell], rs.ret[2]) # 0 THEN rs
  ELSE [rs EXCEPT !.tree[cx.cell] =
          CcAddConnection(CcAddConnection(LcsInsertDummy(@), LcsInsertDummy(@).m_next_dummy_id,
                                          rs.ret[1]),
                          LcsInsertDummy(@).m_next_dummy_id, rs.ret[2])]

\* lines 1090 to 1120 with the first local cluster of the cell, where there is
\* one, as the connector of two edges without owner
HcAttachOnLocal(rs, cx) ==
  LET cc == rs.tree[cx.cell]
      k1 == rs.ret[1]
      k2 == rs.ret[2]
      x1 == CcFind(rs.tree[cx.cell], rs.ret[1])
      x2 == CcFind(rs.tree[cx.cell], rs.ret[2])
      connector == LcsInsertDummy(rs.tree[cx.cell]).m_next_dummy_id
  IN [rs EXCEPT !.tree[cx.cell] =
        IF x1 = 0 THEN
          IF x2 = 0
          THEN IF cc.m_clusters # <<>>
               THEN CcAddConnection(CcAddConnection(cc, 1, k1), 1, k2)
               ELSE CcAddConnection(CcAddConnection(LcsInsertDummy(cc), connector, k1), connector, k2)
          ELSE CcAddConnection(cc, x2, k1)
        ELSE IF x2 = 0 THEN CcAddConnection(cc, x1, k2)
        ELSE IF x1 # x2 THEN
          IF Len(CcConnectionsFor(cc, x1)) < Len(CcConnectionsFor(cc, x2))
          THEN LcsRemoveCluster(CcJoinClusterWith(cc, x2, x1), x1)
          ELSE LcsRemoveCluster(CcJoinClusterWith(cc, x1, x2), x2)
        ELSE cc]

\* lines 1090 to 1120 without the swap: the owner of k1 is the target of the
\* join whatever the numbers of edges are
HcAttachNoSwap(rs, cx) ==
  LET cc == rs.tree[cx.cell]
      k1 == rs.ret[1]
      k2 == rs.ret[2]
      x1 == CcFind(rs.tree[cx.cell], rs.ret[1])
      x2 == CcFind(rs.tree[cx.cell], rs.ret[2])
      connector == LcsInsertDummy(rs.tree[cx.cell]).m_next_dummy_id
  IN [rs EXCEPT !.tree[cx.cell] =
        IF x1 = 0 THEN
          IF x2 = 0
          THEN CcAddConnection(CcAddConnection(LcsInsertDummy(cc), connector, k1), connector, k2)
          ELSE CcAddConnection(cc, x2, k1)
        ELSE IF x2 = 0 THEN CcAddConnection(cc, x1, k2)
        ELSE IF x1 # x2 THEN LcsRemoveCluster(CcJoinClusterWith(cc, x1, x2), x2)
        ELSE cc]

\* add_single_pair (instances), lines 1090 to 1120, with k1 and k2 in rs.ret
HcAttach(rs, cx) ==
  LET cc == rs.tree[cx.cell]
      k1 == rs.ret[1]
      k2 == rs.ret[2]
      x1 == CcFind(rs.tree[cx.cell], rs.ret[1])
      x2 == CcFind(rs.tree[cx.cell], rs.ret[2])
      connector == LcsInsertDummy(rs.tree[cx.cell]).m_next_dummy_id
  IN [rs EXCEPT !.tree[cx.cell] =
        IF x1 = 0 THEN
          IF x2 = 0
          THEN CcAddConnection(CcAddConnection(LcsInsertDummy(cc), connector, k1), connector, k2)
          ELSE CcAddConnection(cc, x2, k1)
        ELSE IF x2 = 0 THEN CcAddConnection(cc, x1, k2)
        ELSE IF x1 # x2 THEN
          \* make the one with more connections the target
          IF Len(CcConnectionsFor(cc, x1)) < Len(CcConnectionsFor(cc, x2))
          THEN LcsRemoveCluster(CcJoinClusterWith(cc, x2, x1), x1)
          ELSE LcsRemoveCluster(CcJoinClusterWith(cc, x1, x2), x2)
        ELSE cc]

\* add_single_pair (instances), lines 1087 to 1120: the clusters id1 and id2
\* at the ends of the paths p1 and p2 interact
HcConnect(rs, cx, id1, p1, id2, p2) ==
  HcAttach(MakePath(MakePath([rs EXCEPT !.ret = <<>>], cx, id1, p1), cx, id2, p2), cx)

\* add_single_pair (common, ci1, p1, t1, ci2, p2, t2)
AddSinglePairInst(rs, cx, common, ci1, p1, t1, ci2, p2, t2) ==
  LET cl1 == TreeGet(rs.tree, ci1)
      cl2 == TreeGet(rs.tree, ci2)
      t21 == TMul(TInv(t1), t2)
  IN FoldSeq(LAMBDA r, i :
       IF ~LcInteractsCell(cl1.m_clusters[i], cx.layout, ci2, t21, cx.conn) THEN r
       ELSE FoldSeq(LAMBDA q, j :
                 IF LcInteractsCluster(cl1.m_clusters[i], cl2.m_clusters[j], t21, cx.conn)
                 THEN HcConnect(q, cx, i, p1, j, p2)
                 ELSE q,
                 r, LcsTouching(cl2, BoxTrans(BoxAnd(common, BoxTrans(LcBBox(cl1.m_clusters[i]), t1)),
                                              TInv(t2)))),
       rs, LcsTouching(cl1, BoxTrans(common, TInv(t1))))

\* box_type::world ()
WorldBox == <<0 - 1000, 0 - 1000, 1000, 1000>>

RECURSIVE AddPairInst(_, _, _, _, _, _, _, _, _)
\* add_pair (common, i1, p1, t1, i2, p2, t2)
AddPairInst(rs, cx, common, i1, p1, t1, i2, p2, t2) ==
  LET cell1 == InstOf(cx.layout, i1).cell
      cell2 == InstOf(cx.layout, i2).cell
      bb1 == CbcBox(cx.layout, rs.tree, cell1)
      bb2 == CbcBox(cx.layout, rs.tree, cell2)
      b2 == BoxTrans(ArrayBBox(InstOf(cx.layout, i2), bb2), t2)
      common_all == BoxAnd(BoxAnd(common, BoxTrans(ArrayBBox(InstOf(cx.layout, i1), bb1), t1)), b2)
      tt1(ii1) == TMul(t1, InstOf(cx.layout, i1).placements[ii1])
      tt2(ii2) == TMul(t2, InstOf(cx.layout, i2).placements[ii2])
      pp1(ii1) == Append(p1, <<i1[1], i1[2], ii1>>)
      pp2(ii2) == Append(p2, <<i2[1], i2[2], ii2>>)
      common12(ii1, ii2) == BoxAnd(BoxAnd(BoxTrans(bb1, tt1(ii1)), BoxTrans(bb2, tt2(ii2))), common)
      common1(ii1) == BoxAnd(BoxAnd(BoxTrans(bb1, tt1(ii1)), b2), common)
  IN IF BoxIsEmpty(common_all) THEN rs
     ELSE FoldSeq(LAMBDA r, ii1 :
       \* dive into cell of ii1 after the loop over ii2
       FoldSeq(LAMBDA u, jj1 :
                 AddPairInst(u, cx, common1(ii1), <<cell1, jj1>>, pp1(ii1), tt1(ii1), i2, p2, t2),
         FoldSeq(LAMBDA q, ii2 :
             IF BoxIsEmpty(common12(ii1, ii2)) THEN q
             ELSE \* add_single_pair, then dive into cell of ii2
                  FoldSeq(LAMBDA u, jj2 :
                            AddPairInst(u, cx, common12(ii1, ii2), i1, p1, t1,
                                        <<cell2, jj2>>, pp2(ii2), tt2(ii2)),
                          AddSinglePairInst(q, cx, common12(ii1, ii2), cell1, pp1(ii1), tt1(ii1),
                                            cell2, pp2(ii2), tt2(ii2)),
                          CellTouching(cx.layout, cell2,
                                       BoxTrans(common12(ii1, ii2), TInv(tt2(ii2))))),
           r, InstTouching(cx.layout, i2, BoxTrans(BoxTrans(bb1, tt1(ii1)), TInv(t2)))),
         IF BoxIsEmpty(common1(ii1)) THEN <<>>
         ELSE CellTouching(cx.layout, cell1, BoxTrans(common1(ii1), TInv(tt1(ii1))))),
       rs, InstTouching(cx.layout, i1, BoxTrans(common_all, TInv(t1))))

RECURSIVE AddSingleInstFrom(_, _, _, _)
\* add_single_inst (i), the loop from array member ii on; the break on
\* ! any is taken at the head of the next round.  first is a local of the
\* loop body, so it is true whenever it is read.  rs.singles counts the
\* add_single_pair calls of the last add_single_inst and rs.dives those of
\* them that were followed by an add_pair with a child instance.
AddSingleInstFrom(rs, cx, i, ii) ==
  LET inst == InstOf(cx.layout, i)
      bb == CbcBox(cx.layout, rs.tree, inst.cell)
      ib(k) == BoxTrans(bb, inst.placements[k])
      first == TRUE
  IN IF ii > Len(inst.placements) \/ (ii > 1 /\ ~rs.any) THEN rs
     ELSE AddSingleInstFrom(
            FoldSeq(LAMBDA acc, ii2 :
               IF inst.placements[ii] = inst.placements[ii2] THEN acc
               ELSE IF ~BoxTouches(ib(ii), ib(ii2)) THEN acc
               ELSE [FoldSeq(LAMBDA u, jj2 :
                               AddPairInst(u, cx, BoxAnd(ib(ii), ib(ii2)), i, <<>>, TUnit,
                                           <<inst.cell, jj2>>, << <<i[1], i[2], ii2>> >>,
                                           inst.placements[ii2]),
                             AddSinglePairInst(acc, cx, BoxAnd(ib(ii), ib(ii2)),
                                               inst.cell, << <<i[1], i[2], ii>> >>, inst.placements[ii],
                                               inst.cell, << <<i[1], i[2], ii2>> >>, inst.placements[ii2]),
                             IF first
                             THEN CellTouching(cx.layout, inst.cell,
                                               BoxTrans(BoxAnd(ib(ii), ib(ii2)), TInv(inst.placements[ii2])))
                             ELSE <<>>)
                       EXCEPT !.any = TRUE,
                              !.singles = @ + 1,
                              !.dives = IF first /\ CellTouching(cx.layout, inst.cell,
                                               BoxTrans(BoxAnd(ib(ii), ib(ii2)), TInv(inst.placements[ii2]))) # <<>>
                                        THEN @ + 1 ELSE @],
               [rs EXCEPT !.any = FALSE], InstTouching(cx.layout, i, ib(ii))),
            cx, i, ii + 1)

\* add_single_inst (i) that looks at the last member of the array only
AddSingleInstLastOnly(rs, cx, i) ==
  AddSingleInstFrom([rs EXCEPT !.singles = 0, !.dives = 0, !.any = TRUE], cx, i,
                    Len(InstOf(cx.layout, i).placements))

\* add_single_inst (i)
AddSingleInst(rs, cx, i) == AddSingleInstFrom([rs EXCEPT !.singles = 0, !.dives = 0], cx, i, 1)

\* lines 1258 to 1268 with the join applied at once instead of mark_to_join
HcAttachLocalJoinsNow(rs, cx, id) ==
  IF CcFind(rs.tree[cx.cell], rs.ret[1]) > 0
  THEN [rs EXCEPT !.tree[cx.cell] = CcJoinClusterWith(@, id, CcFind(@, rs.ret[1]))]
  ELSE [rs EXCEPT !.tree[cx.cell] = CcAddConnection(@, id, rs.ret[1])]

\* add_single_pair (local cluster), lines 1258 to 1268, with k2 in rs.ret
HcAttachLocal(rs, cx, id) ==
  LET other == CcFind(rs.tree[cx.cell], rs.ret[1])
  IN IF other > 0 THEN MarkToJoin(rs, other, id)
     ELSE [rs EXCEPT !.tree[cx.cell] = CcAddConnection(@, id, rs.ret[1])]

\* add_single_pair (c1, ci2, p2, t2)
AddSinglePairLocal(rs, cx, c1, ci2, p2, t2) ==
  FoldSeq(LAMBDA r, j :
       IF ~LcInteractsCluster(c1, TreeGet(rs.tree, ci2).m_clusters[j], t2, cx.conn) THEN r
       ELSE HcAttachLocal(MakePath([r EXCEPT !.ret = <<>>], cx, j, p2), cx, c1.m_id),
       rs, LcsTouching(TreeGet(rs.tree, ci2), BoxTrans(LcBBox(c1), TInv(t2))))

RECURSIVE AddPairLocal(_, _, _, _, _, _)
\* add_pair (c1, i2, p2, t2)
AddPairLocal(rs, cx, c1, i2, p2, t2) ==
  LET inst2 == InstOf(cx.layout, i2)
      b1 == LcBBox(c1)
      bb2 == CbcBox(cx.layout, rs.tree, inst2.cell)
      \* i2.complex_trans (): the transformation of the array's first member
      t2i == TMul(t2, inst2.placements[1])
      b2 == BoxTrans(CellBBox(cx.layout, inst2.cell), t2i)
      tt2(ii2) == TMul(t2, inst2.placements[ii2])
      pp2(ii2) == Append(p2, <<i2[1], i2[2], ii2>>)
  IN IF ~BoxTouches(b1, b2) \/ ~LcInteractsCell(c1, cx.layout, inst2.cell, t2i, cx.conn) THEN rs
     ELSE FoldSeq(LAMBDA r, ii2 :
       IF ~BoxTouches(b1, BoxTrans(bb2, tt2(ii2))) THEN r
       ELSE \* add_single_pair, then dive into cell of ii2
            FoldSeq(LAMBDA u, jj2 :
                      AddPairLocal(u, cx, c1, <<inst2.cell, jj2>>, pp2(ii2), tt2(ii2)),
                    AddSinglePairLocal(r, cx, c1, inst2.cell, pp2(ii2), tt2(ii2)),
                    CellTouching(cx.layout, inst2.cell,
                                 BoxTrans(BoxAnd(b1, BoxTrans(bb2, tt2(ii2))), TInv(tt2(ii2))))),
       rs, InstTouching(cx.layout, i2, BoxTrans(BoxAnd(b1, b2), TInv(t2))))

\* ---------------------------------------------------------------------------
\* SpecBuild: hier_clusters::build on a layout of four cells: Leaf (1), Mid (2)
\* holding an array of Leaf, Top (3) holding an array of Mid and possibly one
\* more Leaf, and a cell (4) that is not called from Top and holds a Leaf.
\* The box scanners report their pairs in any order.  tree0 keeps the clusters
\* of all cells as they are when the stitching of a cell starts, scan0 those of
\* the cell as they are when its second scanner starts.

MaxMembers == 2

\* the area ratio build_hier_connections splits the clusters at
HbAreaRatio == 10

Shp(l, b) == [layer |-> l, box |-> b, attr |-> 0]

LeafShapeChoices ==
  { << Shp(0, <<0, 0, 4, 2>>) >>,
    << Shp(0, <<0, 0, 4, 2>>), Shp(1, <<0, 2, 4, 4>>) >> }

MidShapeChoices ==
  { <<>>, << Shp(0, <<8, 0, 10, 2>>) >>, << Shp(0, <<0 - 2, 0, 0, 2>>) >> }

TopShapeChoices ==
  { <<>>,
    << Shp(0, <<0 - 3, 0 - 2, 9, 0>>) >>,
    << Shp(0, <<0 - 20, 4, 5, 5>>), Shp(0, <<0 - 20, 4, 0 - 19, 30>>) >> }

\* a regular array of n members
ArrayOf(c, base, step, n) ==
  [cell |-> c,
   placements |-> [k \in 1..n |-> <<base[1] + (k - 1) * step[1], base[2] + (k - 1) * step[2]>>]]

HbLayouts ==
  { [shapes |-> <<ls, ms, ts, <<>> >>,
     insts |-> << <<>>,
                  << ArrayOf(1, TUnit, a[1], a[2]) >>,
                  << ArrayOf(2, TUnit, b[1], b[2]) >> \o x,
                  << ArrayOf(1, <<50, 50>>, TUnit, 1) >> >>] :
      ls \in LeafShapeChoices, ms \in MidShapeChoices, ts \in TopShapeChoices,
      a \in {<<4, 0>>, <<6, 0>>} \X (1..MaxMembers),
      b \in {<<8, 0>>, <<0, 4>>} \X (1..MaxMembers),
      x \in { <<>>, << ArrayOf(1, <<0 - 4, 0>>, TUnit, 1) >> } }

\* layout.begin_bottom_up ()
BottomUp(layout) == <<1, 2, 4, 3>>

NewReceiver(tree) ==
  [tree |-> tree, sets |-> EmptyMap, order |-> <<>>, jm |-> EmptyMap, nn |-> 0,
   aborted |-> FALSE, id_new |-> 0, ret |-> <<>>, any |-> FALSE, ups |-> 0,
   singles |-> 0, dives |-> 0]

InitBuild ==
  /\ \E layout \in HbLayouts, conn \in ConnChoices :
       hb = [phase |-> "local", layout |-> layout, conn |-> conn,
             called |-> CalledFrom(layout, {3}),
             local_todo |-> SeqOfSet(CalledFrom(layout, {3})),
             hier_todo |-> SelectSeq(BottomUp(layout), LAMBDA c : c \in CalledFrom(layout, {3})),
             cell |-> 0, rs |-> NewReceiver(EmptyMap),
             pairs |-> {}, fin |-> {}, heap |-> <<>>, lpairs |-> {},
             tree0 |-> EmptyMap, scan0 |-> CcNew, join0 |-> CcNew]
  /\ cb = Idle /\ sp = Idle /\ ic = Idle /\ it = Idle /\ UnitIdle

HbCx == [layout |-> hb.layout, conn |-> hb.conn, cell |-> hb.cell]

\* the box of an instance in the scanners (cell_inst_clusters_box_converter)
HbInstBox(i) ==
  ArrayBBox(InstOf(hb.layout, i), CbcBox(hb.layout, hb.rs.tree, InstOf(hb.layout, i).cell))

\* do_build, pass 1: build_local_cluster for the next called cell
HbBuildLocal ==
  /\ hb.phase = "local"
  /\ hb' = [hb EXCEPT !.rs.tree = MapPut(@, Head(hb.local_todo),
                                     [TreeGet(@, Head(hb.local_todo)) EXCEPT !.m_clusters =
                                        BuildClusters(hb.layout.shapes[Head(hb.local_todo)],
                                                      hb.conn).m_clusters]),
                      !.local_todo = Tail(@),
                      !.phase = IF Tail(hb.local_todo) = <<>> THEN "begin" ELSE "local"]
  /\ UNCHANGED <<cb, sp, ic, it, unitVars>>

\* the pairs the first scanner reports: the instances I whose boxes touch
HbInstPairs(I) ==
  {pr \in I \X I : pr[1][2] < pr[2][2] /\ BoxTouches(HbInstBox(pr[1]), HbInstBox(pr[2]))}

\* build_hier_connections for the next cell: the receiver is made and the
\* instances are handed to the first scanner
HbBeginCell ==
  /\ hb.phase = "begin"
  /\ hb' = [hb EXCEPT !.phase = "inst", !.cell = Head(hb.hier_todo), !.hier_todo = Tail(@),
                      !.rs = NewReceiver(hb.rs.tree), !.tree0 = hb.rs.tree,
                      !.pairs = HbInstPairs({<<Head(hb.hier_todo), k>> :
                                               k \in DOMAIN hb.layout.insts[Head(hb.hier_todo)]}),
                      !.fin = {<<Head(hb.hier_todo), k>> :
                                 k \in DOMAIN hb.layout.insts[Head(hb.hier_todo)]}]
  /\ UNCHANGED <<cb, sp, ic, it, unitVars>>

\* hc_receiver::add (i1, p1, i2, p2)
HbAddInst ==
  /\ hb.phase = "inst"
  /\ \E pr \in hb.pairs : \E i1 \in {pr[1], pr[2]}, i2 \in {pr[1], pr[2]} :
       /\ i1 # i2
       /\ hb' = [hb EXCEPT !.rs = AddPairInst(@, HbCx, WorldBox, i1, <<>>, TUnit, i2, <<>>, TUnit),
                           !.pairs = @ \ {pr}]
  /\ UNCHANGED <<cb, sp, ic, it, unitVars>>

\* hc_receiver::finish (i, p1)
HbFinishInst ==
  /\ hb.phase = "inst"
  /\ \E i \in hb.fin :
       /\ \A pr \in hb.pairs : i # pr[1] /\ i # pr[2]
       /\ hb' = [hb EXCEPT !.rs = IF Len(InstOf(hb.layout, i).placements) > 1
                                  THEN AddSingleInst(@, HbCx, i) ELSE @,
                           !.fin = @ \ {i}]
  /\ UNCHANGED <<cb, sp, ic, it, unitVars>>

\* an insertion that takes the n fragments from the front of the heap
HbInsert1FromFront(ins, c, n, heap) ==
  ins \o (IF n = 0 THEN <<c>> ELSE [k \in 1..n |-> heap[k]])

\* build_hier_connections, lines 1615 to 1623: the cluster c, or the n
\* fragments that split has put on the heap, are inserted
HbInsert1(ins, c, n, heap) ==
  ins \o (IF n = 0 THEN <<c>> ELSE [k \in 1..n |-> heap[Len(heap) + 1 - k]])

\* build_hier_connections, lines 1610 to 1624: what is inserted into side 1
\* of the second scanner
HbSplitAll(clusters) ==
  FoldSeq(LAMBDA acc, c :
            [heap |-> SplitCluster(LcEnsureSorted(c), HbAreaRatio, acc.heap).output,
             ins |-> HbInsert1(acc.ins, c, SplitCluster(LcEnsureSorted(c), HbAreaRatio, acc.heap).n,
                               SplitCluster(LcEnsureSorted(c), HbAreaRatio, acc.heap).output)],
          [heap |-> <<>>, ins |-> <<>>], clusters).ins

\* the pairs the second scanner reports
HbLocalPairs(ins, I) ==
  {lp \in (DOMAIN ins) \X I : BoxTouches(LcBBox(ins[lp[1]]), HbInstBox(lp[2]))}

\* build_hier_connections, lines 1600 to 1628: the local clusters are split
\* and handed to the second scanner together with the instances
HbBeginLocal ==
  /\ hb.phase = "inst" /\ hb.pairs = {} /\ hb.fin = {}
  /\ hb' = [hb EXCEPT !.phase = "cluster", !.scan0 = TreeGet(hb.rs.tree, hb.cell),
                      !.heap = HbSplitAll(TreeGet(hb.rs.tree, hb.cell).m_clusters),
                      !.lpairs = HbLocalPairs(HbSplitAll(TreeGet(hb.rs.tree, hb.cell).m_clusters),
                                              {<<hb.cell, k>> : k \in DOMAIN hb.layout.insts[hb.cell]})]
  /\ UNCHANGED <<cb, sp, ic, it, unitVars>>

\* hc_receiver::add (c1, p1, i2, p2)
HbAddLocal ==
  /\ hb.phase = "cluster"
  /\ \E lp \in hb.lpairs :
       hb' = [hb EXCEPT !.rs = AddPairLocal(@, HbCx, hb.heap[lp[1]], lp[2], <<>>, TUnit),
                        !.lpairs = @ \ {lp}]
  /\ UNCHANGED <<cb, sp, ic, it, unitVars>>

\* build_hier_connections, line 1634: join_superclusters, and do_build goes on
\* with the next cell
HbJoin ==
  /\ hb.phase = "cluster" /\ hb.lpairs = {}
  /\ hb' = [hb EXCEPT !.rs = JoinSuperclusters(@, HbCx),
                      !.join0 = TreeGet(hb.rs.tree, hb.cell),
                      !.phase = IF hb.hier_todo = <<>> THEN "done" ELSE "begin"]
  /\ UNCHANGED <<cb, sp, ic, it, unitVars>>

NextBuild ==
  \/ HbBuildLocal \/ HbBeginCell \/ HbAddInst \/ HbFinishInst
  \/ HbBeginLocal \/ HbAddLocal \/ HbJoin

SpecBuild == InitBuild /\ [][NextBuild]_vars

\* ---------------------------------------------------------------------------
\* The nets of the result and the nets of the flattened layout.  A shape
\* occurrence is <<path, k>>: shape number k of the cell reached from Top along
\* the placements of path.

\* the placements of the instances of cell c
PlacementsIn(layout, c) ==
  UNION {{<<c, k, m>> : m \in DOMAIN layout.insts[c][k].placements} : k \in DOMAIN layout.insts[c]}

RECURSIVE FlatShapes(_, _, _, _)
\* the shapes of cell c and below, transformed by t, each with its occurrence
FlatShapes(layout, c, path, t) ==
  [k \in DOMAIN layout.shapes[c] |->
     [layer |-> layout.shapes[c][k].layer, box |-> BoxTrans(layout.shapes[c][k].box, t),
      attr |-> layout.shapes[c][k].attr, occ |-> <<path, k>>]]
  \o FoldSeq(LAMBDA acc, ie :
               acc \o FlatShapes(layout, InstCell(layout, ie), Append(path, ie),
                                 TMul(t, InstTrans(layout, ie))),
             <<>>, PairSeq(PlacementsIn(layout, c)))

\* the nets of the flattened layout: build_clusters on one cell holding all shapes
FlatNets(layout, conn, top) ==
  {{FlatShapes(layout, top, <<>>, TUnit)[e[2][1]].occ : e \in BagToSet(cl.m_shapes)} :
     cl \in Range(BuildClusters(FlatShapes(layout, top, <<>>, TUnit), conn).m_clusters)}

RECURSIVE InstPaths(_, _, _)
\* the instantiation paths from cell c on, each with the cell it leads to
InstPaths(layout, c, path) ==
  {<<path, c>>} \cup
  UNION {InstPaths(layout, InstCell(layout, ie), Append(path, ie)) : ie \in PlacementsIn(layout, c)}

\* the ids of the clusters of a cell: begin () .. end () and the dummies
\* that hold connections
ClusterIds(cc) == (1..Len(cc.m_clusters)) \cup DOMAIN cc.m_connections

RECURSIVE HierMembers(_, _, _, _, _)
\* the occurrences recursive iteration delivers from cluster id of cell c,
\* which was reached along path
HierMembers(tree, layout, path, c, id) ==
  {<<path, e[2][1]>> : e \in BagToSet(LcsClusterById(TreeGet(tree, c), id).m_shapes)}
  \cup UNION {HierMembers(tree, layout, Append(path, e[2]), InstCell(layout, e[2]), e[1]) :
                e \in Range(CcConnectionsFor(TreeGet(tree, c), id))}

\* the nets of the result: what is reached from the root clusters of the
\* cells, per instantiation path, the empty ones left out
HierNets(tree, layout, top) ==
  UNION {{HierMembers(tree, layout, pc[1], pc[2], id) :
            id \in {i \in ClusterIds(TreeGet(tree, pc[2])) : CcIsRoot(TreeGet(tree, pc[2]), i)}} :
         pc \in InstPaths(layout, top, <<>>)} \ {{}}

HbDone == hb.phase = "done"

\* C1: when build has finished, the nets reached from the root clusters are
\* the nets that build_clusters finds on the flattened layout: the same sets
\* of shape occurrences.
C1_HierEqualsFlat ==
  HbDone => HierNets(hb.rs.tree, hb.layout, 3) = FlatNets(hb.layout, hb.conn, 3)

\* build_hier_connections has returned for the cell hb.cell
HbStitched == hb.phase \in {"begin", "done"} /\ hb.cell # 0

\* the local clusters of a cell that hold shapes
LiveClusters(cc) == {cl \in Range(cc.m_clusters) : cl.m_shapes # EmptyBag}

\* the ids a cell has handed out: the local ones and the dummies
HandedOutIds(cc) ==
  (1..Len(cc.m_clusters)) \cup
  (IF cc.m_next_dummy_id = 0 THEN {} ELSE cc.m_next_dummy_id..SizeMax)

\* the edges stored in a cell
EdgesOf(cc) == UNION {Range(cc.m_connections[id]) : id \in DOMAIN cc.m_connections}

\* C4: when a cell is stitched, every local cluster c1 of the cell owns the
\* edge to (j, placement) for every placement of every child instance, every
\* member of an array included, and every local cluster j of the child cell
\* that interacts with c1 under the transformation of the placement.
C4_LocalOwnsEveryMember ==
  HbStitched =>
    \A c1 \in LiveClusters(TreeGet(hb.rs.tree, hb.cell)) :
      \A ie \in PlacementsIn(hb.layout, hb.cell) :
        \A j \in LiveClusters(TreeGet(hb.rs.tree, InstCell(hb.layout, ie))) :
          LcInteractsCluster(c1, j, InstTrans(hb.layout, ie), hb.conn)
            => CcFind(TreeGet(hb.rs.tree, hb.cell), <<j.m_id, ie>>) = c1.m_id

C8_RevIsInverse ==
  \A c \in DOMAIN hb.rs.tree :
    /\ \A ci \in DOMAIN hb.rs.tree[c].m_rev_connections :
         /\ CcFind(hb.rs.tree[c], ci) # 0
         /\ ci \in Range(CcConnectionsFor(hb.rs.tree[c], CcFind(hb.rs.tree[c], ci)))
    /\ \A id \in DOMAIN hb.rs.tree[c].m_connections :
         \A ci \in Range(hb.rs.tree[c].m_connections[id]) : CcFind(hb.rs.tree[c], ci) = id
    /\ \A id \in DOMAIN hb.rs.tree[c].m_connections :
         \A id2 \in DOMAIN hb.rs.tree[c].m_connections :
           id # id2 => Range(hb.rs.tree[c].m_connections[id])
                         \cap Range(hb.rs.tree[c].m_connections[id2]) = {}
    /\ \A id \in ClusterIds(hb.rs.tree[c]) : \A with_id \in ClusterIds(hb.rs.tree[c]) :
         id # with_id =>
           /\ with_id \notin DOMAIN CcJoinClusterWith(hb.rs.tree[c], id, with_id).m_connections
           /\ \A ci \in DOMAIN hb.rs.tree[c].m_rev_connections :
                CcFind(CcJoinClusterWith(hb.rs.tree[c], id, with_id), ci) # with_id
    /\ \A d \in HandedOutIds(hb.rs.tree[c]) \ ClusterIds(hb.rs.tree[c]) :
         \A ci \in DOMAIN hb.rs.tree[c].m_rev_connections : CcFind(hb.rs.tree[c], ci) # d

\* a cell where a dummy that held edges has been joined into another cluster
\* that now holds at least three edges
C8_Witness ==
  \E c \in DOMAIN hb.rs.tree :
    /\ hb.rs.tree[c].m_next_dummy_id # 0
    /\ \E d \in hb.rs.tree[c].m_next_dummy_id..SizeMax : d \notin DOMAIN hb.rs.tree[c].m_connections
    /\ \E id \in DOMAIN hb.rs.tree[c].m_connections : Len(hb.rs.tree[c].m_connections[id]) >= 3

\* C9: every edge (childId, placement) stored in a cell C, and every edge
\* make_path returns while C is stitched, crosses one level: the placement is
\* a member of an instance of C and childId is an id, local or dummy, of the
\* cell this instance instantiates.
C9_EdgesCrossOneLevel ==
  /\ \A c \in DOMAIN hb.rs.tree : \A e \in EdgesOf(hb.rs.tree[c]) :
       /\ e[2] \in PlacementsIn(hb.layout, c)
       /\ e[1] \in HandedOutIds(TreeGet(hb.rs.tree, InstCell(hb.layout, e[2])))
  /\ \A e \in Range(hb.rs.ret) :
       /\ e[2] \in PlacementsIn(hb.layout, hb.cell)
       /\ e[1] \in HandedOutIds(TreeGet(hb.rs.tree, InstCell(hb.layout, e[2])))

\* build has finished and Top owns an edge to a dummy of Mid that stands for
\* a cluster of Leaf: a connection over two levels is stored as two edges
C9_Witness ==
  /\ HbDone
  /\ \E e \in EdgesOf(TreeGet(hb.rs.tree, 3)) :
       /\ InstCell(hb.layout, e[2]) = 2
       /\ e[1] > Len(TreeGet(hb.rs.tree, 2).m_clusters)
       /\ \E f \in Range(CcConnectionsFor(TreeGet(hb.rs.tree, 2), e[1])) : InstCell(hb.layout, f[2]) = 1

\* C10: when build has finished, a cluster id of a cell X is root exactly if
\* no cell stores an edge (id, placement) with a placement of X, and a cluster
\* that is not root has such an edge for every placement of X in every parent.
C10_RootFlag ==
  HbDone =>
    \A X \in 1..4 : \A id \in ClusterIds(TreeGet(hb.rs.tree, X)) :
      /\ CcIsRoot(TreeGet(hb.rs.tree, X), id)
           <=> ~\E ie \in Range(ParentInsts(hb.layout, X)) :
                  <<id, ie>> \in EdgesOf(TreeGet(hb.rs.tree, ie[1]))
      /\ ~CcIsRoot(TreeGet(hb.rs.tree, X), id)
           => \A ie \in Range(ParentInsts(hb.layout, X)) :
                <<id, ie>> \in EdgesOf(TreeGet(hb.rs.tree, ie[1]))

\* build has finished with a cluster of Mid that is not root while Mid is
\* placed twice, and with a cluster of Leaf that is still root
C10_Witness ==
  /\ HbDone
  /\ Len(ParentInsts(hb.layout, 2)) >= 2
  /\ \E id \in ClusterIds(TreeGet(hb.rs.tree, 2)) : ~CcIsRoot(TreeGet(hb.rs.tree, 2), id)
  /\ \E id \in ClusterIds(TreeGet(hb.rs.tree, 1)) : CcIsRoot(TreeGet(hb.rs.tree, 1), id)

\* ---------------------------------------------------------------------------
\* SpecDoBuild: the second loop of hier_clusters::do_build on every layout of
\* MaxCells cells whose cells instantiate cells of smaller index, the last
\* two cells as top cell and every bottom-up order.  build_hier_connections is reduced to its
\* call: the cell is appended to log.

MaxCells == 4

\* the layouts: cell c holds one instance of each cell of kids[c]
DbLayouts ==
  { [shapes |-> [c \in 1..MaxCells |-> <<>>],
     insts |-> [c \in 1..MaxCells |->
                  [k \in 1..Cardinality(kids[c]) |->
                     [cell |-> SeqOfSet(kids[c])[k], placements |-> <<TUnit>>]]]] :
      kids \in {f \in [1..MaxCells -> SUBSET (1..MaxCells)] : \A c \in 1..MaxCells : \A k \in f[c] : k < c} }

\* layout.begin_bottom_up () .. end_bottom_up (): all cells, every cell after
\* the cells it instantiates
BottomUpOrders(layout) ==
  { o \in [1..MaxCells -> 1..MaxCells] :
      /\ \A i \in 1..MaxCells : \A j \in 1..MaxCells : i # j => o[i] # o[j]
      /\ \A i \in 1..MaxCells : \A j \in 1..MaxCells :
           o[j] \in ChildCells(layout, o[i]) => j < i }

InitDoBuild ==
  /\ \E layout \in DbLayouts, top \in (MaxCells - 1)..MaxCells :
       \E order \in BottomUpOrders(layout) :
         dob = [phase |-> "loop", layout |-> layout, order |-> order, top |-> top,
                called |-> CalledFrom(layout, {top}), pos |-> 1,
                done |-> {}, todo |-> <<>>, log |-> <<>>, flushes |-> 0]
  /\ BuildIdle
  /\ lcl = Idle /\ cty = Idle /\ rci = Idle /\ lsh = Idle /\ mtj = Idle /\ att = Idle

\* the flush without todo.clear ()
DbFlushKeepsTodo(st, c) ==
  [st EXCEPT !.log = @ \o st.todo, !.done = @ \cup Range(st.todo), !.todo = Append(@, c),
             !.flushes = @ + 1]

\* build_hier_connections_for_cells (todo); done.insert (todo); todo.clear ();
\* todo.push_back (c)
DbFlush(st, c) ==
  [st EXCEPT !.log = @ \o st.todo, !.done = @ \cup Range(st.todo), !.todo = <<c>>,
             !.flushes = @ + 1]

\* the body of the loop for the cell c, lines 1497 to 1519
DbLoopBody(st, c) ==
  IF c \notin st.called THEN st
  ELSE IF ChildCells(st.layout, c) \subseteq st.done THEN [st EXCEPT !.todo = Append(@, c)]
  ELSE IF st.todo = <<>> THEN [st EXCEPT !.phase = "failed"]
  ELSE DbFlush(st, c)

\* one round of the loop over the bottom-up order
DbNextCell ==
  /\ dob.phase = "loop" /\ dob.pos <= Len(dob.order)
  /\ dob' = [DbLoopBody(dob, dob.order[dob.pos]) EXCEPT !.pos = @ + 1]
  /\ UNCHANGED <<buildVars, lcl, cty, rci, lsh, mtj, att>>

\* line 1522: build_hier_connections_for_cells (todo) after the loop
DbLastFlush ==
  /\ dob.phase = "loop" /\ dob.pos > Len(dob.order)
  /\ dob' = [dob EXCEPT !.log = @ \o dob.todo, !.phase = "done"]
  /\ UNCHANGED <<buildVars, lcl, cty, rci, lsh, mtj, att>>

NextDoBuild == DbNextCell \/ DbLastFlush

SpecDoBuild == InitDoBuild /\ [][NextDoBuild]_vars

\* C11: the cells build_hier_connections runs on are the cells called from the
\* top cell, each once; when a cell is stitched every cell reachable from it
\* has been stitched before; the assertion on the pending batch never fails.
C11_StitchOrder ==
  /\ dob.phase # "failed"
  /\ \A i \in DOMAIN dob.log :
       /\ dob.log[i] \in dob.called
       /\ \A j \in DOMAIN dob.log : i # j => dob.log[i] # dob.log[j]
       /\ CalledFrom(dob.layout, {dob.log[i]}) \ {dob.log[i]} \subseteq {dob.log[j] : j \in 1..(i - 1)}
  /\ dob.phase = "done" => Range(dob.log) = dob.called

\* do_build has returned after at least two forced flushes, with a cell that
\* is not called and a cell that is reached over two levels
C11_Witness ==
  /\ dob.phase = "done" /\ dob.flushes >= 2
  /\ dob.called # 1..MaxCells
  /\ \E c \in ChildCells(dob.layout, dob.top) : ChildCells(dob.layout, c) # {}

\* ---------------------------------------------------------------------------
\* the stitching of a cell and the cells below it

\* build_hier_connections is running on hb.cell or has just returned
HbStitching == hb.phase \in {"inst", "cluster"} \/ HbStitched

\* the cells reachable from the cell that is stitched
HbBelow == CalledFrom(hb.layout, {hb.cell}) \ {hb.cell}

\* C12 as stated: while a cell is stitched, the stitching adds no cluster, no
\* dummy and no edge to a cell reachable from it and changes none of its
\* clusters.
C12_ChildrenFrozen ==
  HbStitching =>
    \A X \in HbBelow :
      /\ TreeGet(hb.rs.tree, X).m_clusters = TreeGet(hb.tree0, X).m_clusters
      /\ TreeGet(hb.rs.tree, X).m_next_dummy_id = TreeGet(hb.tree0, X).m_next_dummy_id
      /\ TreeGet(hb.rs.tree, X).m_connections = TreeGet(hb.tree0, X).m_connections

\* C12, amended: while a cell is stitched, a cell reachable from it keeps its
\* local clusters, and every cluster that holds edges keeps its edge list and
\* every edge its owner; what is added is dummies made by make_path, each with
\* one edge.
C12_ChildrenKeepClusters ==
  HbStitching =>
    \A X \in HbBelow :
      /\ TreeGet(hb.rs.tree, X).m_clusters = TreeGet(hb.tree0, X).m_clusters
      /\ \A id \in DOMAIN TreeGet(hb.tree0, X).m_connections :
           /\ id \in DOMAIN TreeGet(hb.rs.tree, X).m_connections
           /\ TreeGet(hb.rs.tree, X).m_connections[id] = TreeGet(hb.tree0, X).m_connections[id]
      /\ \A ci \in DOMAIN TreeGet(hb.tree0, X).m_rev_connections :
           CcFind(TreeGet(hb.rs.tree, X), ci) = CcFind(TreeGet(hb.tree0, X), ci)
      /\ \A id \in DOMAIN TreeGet(hb.rs.tree, X).m_connections \ DOMAIN TreeGet(hb.tree0, X).m_connections :
           /\ id > Len(TreeGet(hb.rs.tree, X).m_clusters)
           /\ id \notin HandedOutIds(TreeGet(hb.tree0, X))
           /\ Len(TreeGet(hb.rs.tree, X).m_connections[id]) = 1

\* Top has been stitched and Mid has got a dummy in the course of it
C12_Witness ==
  /\ HbStitched /\ hb.cell = 3
  /\ DOMAIN TreeGet(hb.rs.tree, 2).m_connections # DOMAIN TreeGet(hb.tree0, 2).m_connections

\* the second scanner of build_hier_connections is running
HbScanning == hb.phase = "cluster"

\* the ids of the join sets but the first of each set
HbJoinedAway == UNION {hb.rs.sets[n] \ {SeqOfSet(hb.rs.sets[n])[1]} : n \in DOMAIN hb.rs.sets}

\* C13: during the scan of local clusters against instances the clusters of
\* the cell keep their shapes and boxes, no cluster that holds edges loses
\* them and no edge changes its owner (no join_cluster_with, no
\* remove_cluster); the joins are in the join sets of mark_to_join only and
\* are applied by join_superclusters after the scan.
C13_ScanDefersJoins ==
  /\ HbScanning =>
       /\ TreeGet(hb.rs.tree, hb.cell).m_clusters = hb.scan0.m_clusters
       /\ \A cl \in Range(hb.scan0.m_clusters) :
            LcBBox(LcsClusterById(TreeGet(hb.rs.tree, hb.cell), cl.m_id)) = LcBBox(cl)
       /\ \A id \in DOMAIN hb.scan0.m_connections :
            /\ id \in DOMAIN TreeGet(hb.rs.tree, hb.cell).m_connections
            /\ SubSeq(TreeGet(hb.rs.tree, hb.cell).m_connections[id], 1,
                      Len(hb.scan0.m_connections[id])) = hb.scan0.m_connections[id]
       /\ \A ci \in DOMAIN hb.scan0.m_rev_connections :
            CcFind(TreeGet(hb.rs.tree, hb.cell), ci) = CcFind(hb.scan0, ci)
  /\ HbStitched =>
       \A id \in HbJoinedAway :
         /\ id \notin DOMAIN TreeGet(hb.rs.tree, hb.cell).m_connections
         /\ LcsClusterById(TreeGet(hb.rs.tree, hb.cell), id).m_shapes = EmptyBag

\* the scan has marked a local cluster that holds shapes and a dummy that
\* holds edges for a join, and both are as they were
C13_Witness ==
  /\ HbScanning
  /\ \E n \in DOMAIN hb.rs.sets : \E a \in hb.rs.sets[n], b \in hb.rs.sets[n] :
       /\ LcsClusterById(TreeGet(hb.rs.tree, hb.cell), a).m_shapes # EmptyBag
       /\ b > Len(hb.scan0.m_clusters)
       /\ CcConnectionsFor(TreeGet(hb.rs.tree, hb.cell), b) # <<>>

\* ---------------------------------------------------------------------------
\* SpecClusters: the clusters of cell 1 under insert (with a shape added to the
\* new cluster), remove_cluster, join_cluster_with, insert_dummy with
\* add_connection, and the queries cluster_by_id, connections_for_cluster and
\* clusters_per_cell (const) on the cells 1 and 2.  hc is m_per_cell_clusters,
\* prev is hc before the last call, op the last call and res what it returned.

MaxOps == 4

\* the ids the calls are made with: nil, the local ids, one past them, and
\* the first dummy id
LoIds(cc) == 0..(Len(cc.m_clusters) + 1) \cup {SizeMax}

LoShapes == { <<1, <<0, 0, 2, 2>>>>, <<2, <<5, 5, 6, 6>>>> }

InitClusters ==
  /\ lcl = [phase |-> "run", hc |-> EmptyMap, prev |-> EmptyMap, n |-> 0,
            op |-> <<"new">>, res |-> <<>>]
  /\ BuildIdle
  /\ dob = Idle /\ cty = Idle /\ rci = Idle /\ lsh = Idle /\ mtj = Idle /\ att = Idle

LoCan == lcl.phase = "run" /\ lcl.n < MaxOps

\* a call that changes the clusters of cell 1 to cc
LoUpdate(cc, op) ==
  lcl' = [lcl EXCEPT !.hc = MapPut(@, 1, cc), !.prev = lcl.hc, !.n = @ + 1, !.op = op,
                     !.res = <<>>]

\* a query that returns res
LoReturn(res, op) ==
  lcl' = [lcl EXCEPT !.prev = lcl.hc, !.n = @ + 1, !.op = op, !.res = res]

\* insert (), and add (s, 0) on the cluster it returns
LoInsert ==
  /\ LoCan
  /\ \E s \in LoShapes :
       LoUpdate([LcsInsert(TreeGet(lcl.hc, 1)) EXCEPT
                   !.m_clusters[Len(TreeGet(lcl.hc, 1).m_clusters) + 1] = LcAdd(@, s, 0)],
                <<"insert">>)
  /\ UNCHANGED <<buildVars, dob, cty, rci, lsh, mtj, att>>

\* remove_cluster (id)
LoRemove ==
  /\ LoCan /\ 1 \in DOMAIN lcl.hc
  /\ \E id \in LoIds(lcl.hc[1]) :
       LoUpdate(LcsRemoveCluster(lcl.hc[1], id), <<"remove", id>>)
  /\ UNCHANGED <<buildVars, dob, cty, rci, lsh, mtj, att>>

\* local_clusters::join_cluster_with (id, with_id); tl_assert (id > 0)
LoJoin ==
  /\ LoCan /\ 1 \in DOMAIN lcl.hc
  /\ \E id \in LoIds(lcl.hc[1]), with_id \in LoIds(lcl.hc[1]) :
       IF id = 0
       THEN lcl' = [lcl EXCEPT !.phase = "failed", !.prev = lcl.hc, !.op = <<"join", id, with_id>>]
       ELSE LoUpdate(LcsJoinClusterWith(lcl.hc[1], id, with_id), <<"join", id, with_id>>)
  /\ UNCHANGED <<buildVars, dob, cty, rci, lsh, mtj, att>>

\* insert_dummy () and add_connection (the dummy, ci)
LoAddDummy ==
  /\ LoCan /\ 1 \in DOMAIN lcl.hc
  /\ LoUpdate(CcAddConnection(LcsInsertDummy(lcl.hc[1]), LcsInsertDummy(lcl.hc[1]).m_next_dummy_id,
                              <<1, <<1, 1, 1>>>>),
              <<"dummy">>)
  /\ UNCHANGED <<buildVars, dob, cty, rci, lsh, mtj, att>>

\* cluster_by_id (id) on the clusters of cell 1; tl_assert (id > 0)
LoClusterById ==
  /\ LoCan /\ 1 \in DOMAIN lcl.hc
  /\ \E id \in LoIds(lcl.hc[1]) :
       IF id = 0
       THEN lcl' = [lcl EXCEPT !.phase = "failed", !.prev = lcl.hc, !.op = <<"cluster_by_id", id>>]
       ELSE LoReturn(LcsClusterById(lcl.hc[1], id), <<"cluster_by_id", id>>)
  /\ UNCHANGED <<buildVars, dob, cty, rci, lsh, mtj, att>>

\* connections_for_cluster (id) on the clusters of cell 1
LoConnectionsFor ==
  /\ LoCan /\ 1 \in DOMAIN lcl.hc
  /\ \E id \in LoIds(lcl.hc[1]) :
       LoReturn(CcConnectionsFor(lcl.hc[1], id), <<"connections_for_cluster", id>>)
  /\ UNCHANGED <<buildVars, dob, cty, rci, lsh, mtj, att>>

\* clusters_per_cell (c) const
LoClustersPerCell ==
  /\ LoCan
  /\ \E c \in {1, 2} : LoReturn(HcClustersPerCell(lcl.hc, c), <<"clusters_per_cell", c>>)
  /\ UNCHANGED <<buildVars, dob, cty, rci, lsh, mtj, att>>

NextClusters ==
  \/ LoInsert \/ LoRemove \/ LoJoin \/ LoAddDummy
  \/ LoClusterById \/ LoConnectionsFor \/ LoClustersPerCell

SpecClusters == InitClusters /\ [][NextClusters]_vars

\* the clusters of cell 1 before and after the last call
LoBefore == TreeGet(lcl.prev, 1).m_clusters
LoAfter == TreeGet(lcl.hc, 1).m_clusters

\* the ids the last call has emptied
LoEmptied ==
  IF lcl.op[1] = "remove" THEN {lcl.op[2]} \cap DOMAIN LoBefore
  ELSE IF lcl.op[1] = "join" /\ lcl.op[2] \in DOMAIN LoBefore /\ lcl.op[3] \in DOMAIN LoBefore
  THEN {lcl.op[3]}
  ELSE {}

\* the id the last call has joined a cluster into
LoGrown ==
  IF lcl.op[1] = "join" /\ lcl.op[2] \in DOMAIN LoBefore /\ lcl.op[3] \in DOMAIN LoBefore
  THEN {lcl.op[2]} \ {lcl.op[3]}
  ELSE {}

\* C14: after every sequence of insert, remove_cluster and join_cluster_with
\* the cluster in slot k reports id k + 1 (here: index k reports id k), the
\* number of slots has not decreased, cluster_by_id gives what it gave before
\* the call for every cluster the call has not touched, and removed and
\* joined-away clusters keep their slot, emptied.
C14_IdsAreStable ==
  /\ \A k \in DOMAIN LoAfter : LoAfter[k].m_id = k
  /\ Len(LoAfter) >= Len(LoBefore)
  /\ \A k \in DOMAIN LoBefore \ (LoEmptied \cup LoGrown) :
       LcsClusterById(TreeGet(lcl.hc, 1), k) = LcsClusterById(TreeGet(lcl.prev, 1), k)
  /\ \A k \in LoEmptied :
       /\ k \in DOMAIN LoAfter
       /\ LoAfter[k].m_shapes = EmptyBag /\ LoAfter[k].m_attrs = {} /\ LoAfter[k].m_size = 0
  /\ \A k \in LoGrown :
       LoAfter[k].m_shapes = LoBefore[k].m_shapes (+) LoBefore[lcl.op[3]].m_shapes

\* a cluster with a shape has been joined into a cluster behind it while a
\* third cluster with a shape is in place
C14_Witness ==
  /\ lcl.op[1] = "join" /\ LoGrown # {} /\ lcl.op[3] < lcl.op[2]
  /\ LoBefore[lcl.op[3]].m_shapes # EmptyBag
  /\ \E k \in DOMAIN LoAfter : k \notin LoEmptied \cup LoGrown /\ LoAfter[k].m_shapes # EmptyBag

\* the last call was a query for something that is not there
LoNotFound(ids) ==
  \/ lcl.op[1] = "cluster_by_id" /\ lcl.op[2] \in ids
  \/ lcl.op[1] = "connections_for_cluster" /\ lcl.op[2] \notin DOMAIN TreeGet(lcl.prev, 1).m_connections
  \/ lcl.op[1] = "clusters_per_cell" /\ lcl.op[2] \notin DOMAIN lcl.prev

\* the last call has returned an empty value and has changed nothing
LoEmptyReturn ==
  /\ lcl.phase = "run"
  /\ lcl.hc = lcl.prev
  /\ lcl.op[1] = "cluster_by_id" =>
       lcl.res.m_shapes = EmptyBag /\ lcl.res.m_attrs = {} /\ lcl.res.m_size = 0
  /\ lcl.op[1] = "connections_for_cluster" => lcl.res = <<>>
  /\ lcl.op[1] = "clusters_per_cell" => lcl.res = CcNew

\* C15 as stated: cluster_by_id for every id outside 1..N, connections_for_cluster
\* for every id without edges and clusters_per_cell (const) for every cell
\* without an entry return an empty value, raise no assertion and insert nothing.
C15_NotFoundNeverFails ==
  LoNotFound(LoIds(TreeGet(lcl.prev, 1)) \ DOMAIN LoBefore) => LoEmptyReturn

\* C15, amended: the same with cluster_by_id for every id greater than N; the
\* id 0 is left out.
C15_NotFoundAboveN ==
  LoNotFound(LoIds(TreeGet(lcl.prev, 1)) \ (DOMAIN LoBefore \cup {0})) => LoEmptyReturn

\* cluster_by_id has been called with the id of a dummy that holds an edge
\* while the cell holds a cluster with a shape
C15_Witness ==
  /\ lcl.op = <<"cluster_by_id", SizeMax>>
  /\ CcConnectionsFor(TreeGet(lcl.hc, 1), SizeMax) # <<>>
  /\ \E k \in DOMAIN LoAfter : LoAfter[k].m_shapes # EmptyBag

\* ---------------------------------------------------------------------------
\* SpecConnectivity: a Connectivity under up to MaxConnects different calls of
\* connect (la, lb) and connect (l) with the layers 0..MaxLayer; calls is the
\* set of the calls made.

MaxLayer == 2
MaxConnects == 4

CyLayers == 0..MaxLayer

InitConnectivity ==
  /\ cty = [phase |-> "run", conn |-> ConnEmpty, calls |-> {}]
  /\ BuildIdle
  /\ dob = Idle /\ lcl = Idle /\ rci = Idle /\ lsh = Idle /\ mtj = Idle /\ att = Idle

\* connect (la, lb)
CyConnect2 ==
  /\ cty.phase = "run" /\ Cardinality(cty.calls) < MaxConnects
  /\ \E la \in CyLayers, lb \in CyLayers :
       cty' = [cty EXCEPT !.conn = ConnConnect2(@, la, lb), !.calls = @ \cup {<<la, lb>>}]
  /\ UNCHANGED <<buildVars, dob, lcl, rci, lsh, mtj, att>>

\* connect (l)
CyConnect1 ==
  /\ cty.phase = "run" /\ Cardinality(cty.calls) < MaxConnects
  /\ \E l \in CyLayers :
       cty' = [cty EXCEPT !.conn = ConnConnect1(@, l), !.calls = @ \cup {<<l>>}]
  /\ UNCHANGED <<buildVars, dob, lcl, rci, lsh, mtj, att>>

NextConnectivity == CyConnect2 \/ CyConnect1

SpecConnectivity == InitConnectivity /\ [][NextConnectivity]_vars

\* two shapes that touch
CyShapeA == <<1, <<0, 0, 2, 2>>>>
CyShapeB == <<2, <<2, 0, 4, 2>>>>

\* C16: after every sequence of connect calls lb is a neighbor of la exactly
\* if la is one of lb, and exactly if a call has named the two; the layers
\* are the layers named in some call; a layer is its own neighbor only after
\* connect (l) or connect (l, l); interacts gives false for two layers that
\* are not neighbors, a layer never seen included.
C16_ConnectivitySymmetric ==
  cty.phase = "run" =>
    /\ \A la \in CyLayers, lb \in CyLayers :
         /\ lb \in ConnConnected(cty.conn, la) <=> la \in ConnConnected(cty.conn, lb)
         /\ lb \in ConnConnected(cty.conn, la)
              <=> \/ <<la, lb>> \in cty.calls \/ <<lb, la>> \in cty.calls
                  \/ la = lb /\ <<la>> \in cty.calls
    /\ cty.conn.m_all_layers = UNION {Range(x) : x \in cty.calls}
    /\ \A l \in CyLayers :
         l \in ConnConnected(cty.conn, l) => <<l>> \in cty.calls \/ <<l, l>> \in cty.calls
    /\ \A la \in 0..(MaxLayer + 1), lb \in 0..(MaxLayer + 1) :
         lb \notin ConnConnected(cty.conn, la)
           => ~ConnInteracts(cty.conn, CyShapeA, la, CyShapeB, lb, TUnit)

\* connect (0, 1) and connect (2) have been called, layer 1 is not its own
\* neighbor and interacts finds the two shapes on the layers 0 and 1
C16_Witness ==
  /\ cty.phase = "run"
  /\ <<0, 1>> \in cty.calls /\ <<2>> \in cty.calls
  /\ 1 \notin ConnConnected(cty.conn, 1)
  /\ ConnInteracts(cty.conn, CyShapeA, 1, CyShapeB, 0, TUnit)

\* ---------------------------------------------------------------------------
\* recursive_cluster_iterator: the stacks of the shape iterator without the
\* shapes and the transformations.  A connection iterator is [cell, id, pos].

\* down (ci, id)
RcDown(hc, x, ci, id) ==
  [x EXCEPT !.m_cell_index_stack = Append(@, ci),
            !.m_conn_iter_stack = Append(@, [cell |-> ci, id |-> id, pos |-> 1])]

\* up ()
RcUp(x) ==
  [x EXCEPT !.m_conn_iter_stack = SubSeq(@, 1, Len(@) - 1),
            !.m_cell_index_stack = SubSeq(@, 1, Len(@) - 1)]

RECURSIVE RcUnwind(_, _)
\* the while loop of next_conn
RcUnwind(hc, x) ==
  IF ~ItConnAtEnd(hc, x.m_conn_iter_stack[Len(x.m_conn_iter_stack)]) THEN x
  ELSE LET x1 == RcUp(x)
       IN IF x1.m_conn_iter_stack = <<>> THEN x1
          ELSE RcUnwind(hc, [x1 EXCEPT !.m_conn_iter_stack[Len(x1.m_conn_iter_stack)].pos = @ + 1])

\* next_conn () that steps over the next connection instead of entering it
RcNextConnSkips(hc, x) ==
  LET back == x.m_conn_iter_stack[Len(x.m_conn_iter_stack)]
  IN IF ~ItConnAtEnd(hc, back)
     THEN RcUnwind(hc, [x EXCEPT !.m_conn_iter_stack[Len(x.m_conn_iter_stack)].pos = @ + 1])
     ELSE RcUnwind(hc, x)

\* next_conn ()
RcNextConn(hc, x) ==
  LET x1 == RcUnwind(hc, x)
  IN IF x1.m_conn_iter_stack = <<>> THEN x1
     ELSE LET back == x1.m_conn_iter_stack[Len(x1.m_conn_iter_stack)]
          IN IF ~ItConnAtEnd(hc, back)
             THEN LET cli == ItConnList(hc, back)[back.pos]
                  IN RcDown(hc, x1, InstCell(x1.layout, cli[2]), cli[1])
             ELSE x1

\* the constructor
RcCreate(hc, layout, ci, id) ==
  RcDown(hc, [layout |-> layout, m_id |-> id,
              m_cell_index_stack |-> <<>>, m_conn_iter_stack |-> <<>>], ci, id)

\* at_end (), cell_index () and inst_path ()
RcAtEnd(x) == x.m_cell_index_stack = <<>>
RcCellIndex(x) == x.m_cell_index_stack[Len(x.m_cell_index_stack)]
RcInstPath(hc, x) ==
  IF x.m_conn_iter_stack = <<>> THEN <<>>
  ELSE [i \in 1..(Len(x.m_conn_iter_stack) - 1) |->
          ItConnList(hc, x.m_conn_iter_stack[i])[x.m_conn_iter_stack[i].pos]]

\* ---------------------------------------------------------------------------
\* SpecClusterIter: a recursive_cluster_iterator is created on the layout
\* IcLayout and stepped to its end; seen lists what the caller read.

RcEdge(id, ie) == <<id, ie>>

\* the connections each cell may hold; one list holds an edge twice
RcConnChoices(c) ==
  CASE c = 2 -> { EmptyMap,
                  (1 :> << RcEdge(1, <<2, 1, 1>>), RcEdge(2, <<2, 1, 2>>) >>),
                  (1 :> << RcEdge(1, <<2, 1, 1>>) >>)
                    @@ (IcDummy :> << RcEdge(1, <<2, 1, 2>>), RcEdge(1, <<2, 1, 2>>) >>) }
    [] c = 3 -> { EmptyMap,
                  (1 :> << RcEdge(1, <<3, 1, 1>>), RcEdge(1, <<3, 2, 1>>) >>),
                  (1 :> << RcEdge(IcDummy, <<3, 1, 1>>), RcEdge(1, <<3, 1, 1>>),
                           RcEdge(2, <<3, 2, 1>>) >>),
                  (IcDummy :> << RcEdge(1, <<3, 1, 1>>) >>)
                    @@ (2 :> << RcEdge(IcDummy, <<3, 1, 1>>) >>) }
    [] OTHER -> { EmptyMap }

InitClusterIter ==
  /\ \E c2 \in RcConnChoices(2), c3 \in RcConnChoices(3),
        ci \in 1..3, id \in {1, 2, IcDummy} :
       rci = [phase |-> "new",
              hc |-> (2 :> [CcNew EXCEPT !.m_connections = c2])
                       @@ (3 :> [CcNew EXCEPT !.m_connections = c3]),
              layout |-> IcLayout, ci |-> ci, id |-> id,
              iter |-> [m_conn_iter_stack |-> <<>>, m_cell_index_stack |-> <<>>],
              seen |-> <<>>]
  /\ BuildIdle
  /\ dob = Idle /\ lcl = Idle /\ cty = Idle /\ lsh = Idle /\ mtj = Idle /\ att = Idle

\* recursive_cluster_iterator (hc, ci, id)
RcConstruct ==
  /\ rci.phase = "new"
  /\ rci' = [rci EXCEPT !.phase = "iter",
                        !.iter = RcCreate(rci.hc, rci.layout, rci.ci, rci.id)]
  /\ UNCHANGED <<buildVars, dob, lcl, cty, lsh, mtj, att>>

\* what the caller reads at a position: cell_index (), cluster_id (),
\* inst_path (), the stack depth and the positions of the frames below the top
RcVisit(hc, x) ==
  [cell |-> RcCellIndex(x), id |-> ItClusterId(hc, x), path |-> RcInstPath(hc, x),
   depth |-> Len(x.m_conn_iter_stack),
   at |-> [i \in 1..(Len(x.m_conn_iter_stack) - 1) |-> x.m_conn_iter_stack[i].pos]]

\* the caller reads the position and steps with ++iter
RcStep ==
  /\ rci.phase = "iter"
  /\ ~RcAtEnd(rci.iter)
  /\ rci' = [rci EXCEPT !.seen = Append(@, RcVisit(rci.hc, rci.iter)),
                        !.iter = RcNextConn(rci.hc, rci.iter)]
  /\ UNCHANGED <<buildVars, dob, lcl, cty, lsh, mtj, att>>

NextClusterIter == RcConstruct \/ RcStep

SpecClusterIter == InitClusterIter /\ [][NextClusterIter]_vars

RECURSIVE RcPreorder(_, _, _, _, _, _)
RECURSIVE RcPreorderFrom(_, _, _, _, _, _, _)
\* the connection tree below cluster id of cell ci in depth-first pre-order:
\* the node itself, then the subtrees of its edges in the order of the list;
\* path and at are the edges and their list positions from the start node
RcPreorder(hc, layout, ci, id, path, at) ==
  <<[cell |-> ci, id |-> id, path |-> path, depth |-> Len(path) + 1, at |-> at]>>
    \o RcPreorderFrom(hc, layout, ci, id, path, at, 1)

RcPreorderFrom(hc, layout, ci, id, path, at, k) ==
  LET conn == CcConnectionsFor(HcClustersPerCell(hc, ci), id)
  IN IF k > Len(conn) THEN <<>>
     ELSE RcPreorder(hc, layout, InstCell(layout, conn[k][2]), conn[k][1],
                     Append(path, conn[k]), Append(at, k))
            \o RcPreorderFrom(hc, layout, ci, id, path, at, k + 1)

RcExpected == RcPreorder(rci.hc, rci.layout, rci.ci, rci.id, <<>>, <<>>)

\* the positions read so far, the current one included
RcRead ==
  IF RcAtEnd(rci.iter) THEN rci.seen ELSE Append(rci.seen, RcVisit(rci.hc, rci.iter))

\* C17: the positions of a recursive_cluster_iterator are the nodes of the
\* connection tree below the start cluster in depth-first pre-order, the
\* start cluster first and each chain of edges once (an edge that a list
\* holds twice is two edges); at every position inst_path () is the list of
\* the edges from the start to the node and is one shorter than the stack;
\* at the end all nodes have been visited.
C17_ClusterIteratorPreorder ==
  rci.phase = "iter" =>
    /\ Len(RcRead) <= Len(RcExpected)
    /\ RcRead = SubSeq(RcExpected, 1, Len(RcRead))
    /\ \A i \in DOMAIN RcRead : Len(RcRead[i].path) = RcRead[i].depth - 1
    /\ \A i, j \in DOMAIN RcRead : i # j => RcRead[i].at # RcRead[j].at
    /\ RcAtEnd(rci.iter) => rci.seen = RcExpected /\ rci.iter.m_conn_iter_stack = <<>>

\* an iteration that ended after it went two levels down, came back up and
\* entered a second edge of the start cluster
C17_Witness ==
  /\ rci.phase = "iter" /\ RcAtEnd(rci.iter)
  /\ Len(rci.seen) >= 5
  /\ \E i \in DOMAIN rci.seen : rci.seen[i].depth = 3
  /\ \E i, j \in DOMAIN rci.seen :
       i < j /\ rci.seen[i].depth = 3 /\ rci.seen[j].depth = 2

\* ---------------------------------------------------------------------------
\* SpecSorted: two local clusters under up to MaxCalls calls of add,
\* join_with, ensure_sorted and the two interacts.  lookups lists the
\* begin_touching calls of the last call: the cluster whose shapes were
\* looked up and its m_needs_update at that moment.

MaxCalls == 4

LsLayout ==
  [shapes |-> << <<[box |-> <<0, 0, 4, 2>>, layer |-> 0, attr |-> 0]>> >>,
   insts |-> << <<>> >>]

LsConn == ConnConnect1(ConnConnect1(ConnEmpty, 0), 1)

LsShapes == {<<1, <<0, 0, 4, 2>>>>, <<2, <<4, 0, 8, 2>>>>}

InitSorted ==
  /\ lsh = [phase |-> "run", cl |-> <<LcNew(1), LcNew(2)>>, n |-> 0,
            op |-> "new", lookups |-> {}, ret |-> FALSE]
  /\ BuildIdle
  /\ dob = Idle /\ lcl = Idle /\ cty = Idle /\ rci = Idle /\ mtj = Idle /\ att = Idle

LsCan == lsh.phase = "run" /\ lsh.n < MaxCalls

\* cl.add (s, la)
LsAdd ==
  /\ LsCan
  /\ \E i \in 1..2, s \in LsShapes, la \in 0..1 :
       lsh' = [lsh EXCEPT !.cl[i] = LcAdd(@, s, la), !.n = @ + 1,
                          !.op = "add", !.lookups = {}, !.ret = FALSE]
  /\ UNCHANGED <<buildVars, dob, lcl, cty, rci, mtj, att>>

\* cl.join_with (other): other's shapes are read by begin () .. end ()
LsJoinWith ==
  /\ LsCan
  /\ \E i \in 1..2 :
       lsh' = [lsh EXCEPT !.cl[i] = LcJoinWith(@, lsh.cl[3 - i]), !.n = @ + 1,
                          !.op = "join_with", !.lookups = {}, !.ret = FALSE]
  /\ UNCHANGED <<buildVars, dob, lcl, cty, rci, mtj, att>>

\* cl.ensure_sorted ()
LsEnsureSorted ==
  /\ LsCan
  /\ \E i \in 1..2 :
       lsh' = [lsh EXCEPT !.cl[i] = LcEnsureSorted(@), !.n = @ + 1,
                          !.op = "ensure_sorted", !.lookups = {}, !.ret = FALSE]
  /\ UNCHANGED <<buildVars, dob, lcl, cty, rci, mtj, att>>

\* the begin_touching calls of cl.interacts (cell, trans, conn): one per layer
\* of cl whose connected layers have a box in the cell, on m_shapes as it is
LsCellLookups(cl, i, layout, c, conn) ==
  {[on |-> i, dirty |-> cl.m_needs_update] :
     s \in {l \in LcLayers(cl) : ~BoxIsEmpty(CellBBoxOn(layout, c, ConnConnected(conn, l)))}}

\* cl.interacts (cell, trans, conn); what a lookup in shapes that are not
\* sorted returns is left open
LsInteractsCell ==
  /\ LsCan
  /\ \E i \in 1..2, r \in BOOLEAN :
       LET cl == lsh.cl[i]
           lk == LsCellLookups(cl, i, LsLayout, 1, LsConn)
       IN /\ \/ \E x \in lk : x.dirty
             \/ r = LcInteractsCell(cl, LsLayout, 1, TUnit, LsConn)
          /\ lsh' = [lsh EXCEPT !.n = @ + 1, !.op = "interacts_cell",
                                !.lookups = lk, !.ret = r]
  /\ UNCHANGED <<buildVars, dob, lcl, cty, rci, mtj, att>>

\* the begin_touching calls of cl.interacts (other, trans, conn), made after
\* ensure_sorted () on cl and bbox () on other: on cl when the boxes have a
\* common part, on other when this found a layer
LsClusterLookups(cl, i, other, j, trans) ==
  LET common == BoxAnd(BoxTrans(other.m_bbox, trans), cl.m_bbox)
      ll1 == {l \in LcLayers(cl) : LcTouching(cl, l, common) # {}}
  IN IF BoxIsEmpty(common) THEN {}
     ELSE {[on |-> i, dirty |-> cl.m_needs_update] : l \in LcLayers(cl)}
            \cup {[on |-> j, dirty |-> other.m_needs_update] :
                    l \in {x \in LcLayers(other) : ll1 # {}}}

\* cl.interacts (other, trans, conn): sorts cl, other.bbox () sorts other
LsInteractsCluster ==
  /\ LsCan
  /\ \E i \in 1..2 :
       LET cl == LcEnsureSorted(lsh.cl[i])
           other == LcEnsureSorted(lsh.cl[3 - i])
       IN lsh' = [lsh EXCEPT !.cl[i] = cl, !.cl[3 - i] = other, !.n = @ + 1,
                             !.op = "interacts_cluster",
                             !.lookups = LsClusterLookups(cl, i, other, 3 - i, TUnit),
                             !.ret = LcInteractsCluster(cl, other, TUnit, LsConn)]
  /\ UNCHANGED <<buildVars, dob, lcl, cty, rci, mtj, att>>

NextSorted ==
  LsAdd \/ LsJoinWith \/ LsEnsureSorted \/ LsInteractsCell \/ LsInteractsCluster

SpecSorted == InitSorted /\ [][NextSorted]_vars

\* C18: no begin_touching lookup is made in the shapes of a cluster whose
\* m_needs_update is set, whatever calls of add, join_with and interacts
\* came before.
C18_NoLookupWhileDirty ==
  lsh.phase = "run" => \A x \in lsh.lookups : ~x.dirty

\* the part of C18 that interacts (other, ...) keeps: its lookups are made
\* in sorted shapes, on both clusters
C18_ClusterLookupsSorted ==
  lsh.phase = "run" /\ lsh.op = "interacts_cluster" => \A x \in lsh.lookups : ~x.dirty

\* interacts (other, ...) looked into both clusters after shapes were added
C18_ClusterWitness ==
  /\ lsh.phase = "run" /\ lsh.op = "interacts_cluster"
  /\ {x.on : x \in lsh.lookups} = {1, 2}
  /\ lsh.ret

\* ---------------------------------------------------------------------------
\* SpecMarks: a receiver on cell 1 under up to MaxMarks calls of mark_to_join
\* (a, b) with the ids of the clusters of the cell, a = b included, and then
\* join_superclusters.  rs holds m_cm2join_sets (sets, in the order of the
\* list), m_cm2join_map (jm) and the clusters (tree); marked is the set of
\* the pairs named, join0 the clusters when join_superclusters was called.

MaxMarks == 3

MjShape(sid) == <<sid, <<4 * sid, 0, 4 * sid + 4, 2>>>>

\* a local cluster with shapes <<layer, T>> and attributes
MjCluster(id, S, A) == [ItCluster(id, S) EXCEPT !.m_attrs = A, !.m_needs_update = TRUE]

\* the clusters of the cell: local clusters with shapes, attributes and
\* edges, and dummy clusters with edges
MjClusters ==
  { CcAddConnection(CcAddConnection(CcAddConnection(CcAddConnection(
      LcsInsertDummy([CcNew EXCEPT !.m_clusters =
         << MjCluster(1, {<<0, MjShape(1)>>}, {1}),
            MjCluster(2, {<<0, MjShape(2)>>, <<1, MjShape(3)>>}, {2}),
            MjCluster(3, {<<1, MjShape(4)>>}, {}) >>]),
      2, <<1, <<1, 1, 1>>>>), 3, <<1, <<1, 1, 2>>>>),
      SizeMax, <<2, <<1, 1, 1>>>>), SizeMax, <<2, <<1, 1, 2>>>>),
    CcAddConnection(CcAddConnection(CcAddConnection(CcAddConnection(
      LcsInsertDummy(LcsInsertDummy([CcNew EXCEPT !.m_clusters =
         << MjCluster(1, {<<0, MjShape(1)>>}, {}),
            MjCluster(2, {<<0, MjShape(2)>>}, {1}) >>])),
      1, <<1, <<1, 1, 1>>>>), SizeMax, <<2, <<1, 1, 1>>>>),
      SizeMax - 1, <<2, <<1, 1, 2>>>>), SizeMax - 1, <<1, <<1, 1, 2>>>>) }

MjCx == [cell |-> 1]
MjCc == mtj.rs.tree[1]
MjIds == ClusterIds(MjCc)

InitMarks ==
  /\ \E cc \in MjClusters :
       mtj = [phase |-> "run",
              rs |-> [nn |-> 0, order |-> <<>>, sets |-> EmptyMap, jm |-> EmptyMap,
                      tree |-> (1 :> cc)],
              marked |-> {}, n |-> 0, join0 |-> CcNew]
  /\ BuildIdle
  /\ dob = Idle /\ lcl = Idle /\ cty = Idle /\ rci = Idle /\ lsh = Idle /\ att = Idle

\* mark_to_join (a, b)
MjMark ==
  /\ mtj.phase = "run" /\ mtj.n < MaxMarks
  /\ \E a \in MjIds, b \in MjIds :
       mtj' = [mtj EXCEPT !.rs = MarkToJoin(@, a, b), !.marked = @ \cup {<<a, b>>},
                          !.n = @ + 1]
  /\ UNCHANGED <<buildVars, dob, lcl, cty, rci, lsh, att>>

\* join_superclusters ()
MjJoin ==
  /\ mtj.phase = "run"
  /\ mtj' = [mtj EXCEPT !.rs = JoinSuperclusters(@, MjCx), !.join0 = MjCc,
                        !.phase = "joined"]
  /\ UNCHANGED <<buildVars, dob, lcl, cty, rci, lsh, att>>

NextMarks == MjMark \/ MjJoin

SpecMarks == InitMarks /\ [][NextMarks]_vars

\* the shapes the clusters with the ids of S hold together
JsShapes(cc, S) ==
  FoldSeq(LAMBDA acc, id : acc (+) LcsClusterById(cc, id).m_shapes, EmptyBag, SeqOfSet(S))

\* the attributes they hold together
JsAttrs(cc, S) == UNION {LcsClusterById(cc, id).m_attrs : id \in S}

\* how often the clusters with the ids of S hold the edge e together
JsEdgeCount(cc, S, e) ==
  SumSeq([k \in 1..Cardinality(S) |->
            Cardinality({i \in DOMAIN CcConnectionsFor(cc, SeqOfSet(S)[k]) :
                           CcConnectionsFor(cc, SeqOfSet(S)[k])[i] = e})])

\* cc is cc0 with every join set joined into its member with the smallest id
JsJoined(cc0, cc, sets) ==
  /\ \A n \in DOMAIN sets :
       LET S == sets[n]
           c == SeqOfSet(S)[1]
       IN /\ LcsClusterById(cc, c).m_shapes = JsShapes(cc0, S)
          /\ LcsClusterById(cc, c).m_attrs = JsAttrs(cc0, S)
          /\ \A e \in EdgesOf(cc0) \cup EdgesOf(cc) :
               JsEdgeCount(cc, {c}, e) = JsEdgeCount(cc0, S, e)
          /\ \A x \in S \ {c} :
               /\ LcsClusterById(cc, x).m_shapes = EmptyBag
               /\ CcConnectionsFor(cc, x) = <<>>
          /\ (\E x \in S : x <= Len(cc0.m_clusters)) => c <= Len(cc.m_clusters)
  /\ Len(cc.m_clusters) = Len(cc0.m_clusters)
  /\ \A id \in ClusterIds(cc0) \cup ClusterIds(cc) :
       id \notin UNION {sets[n] : n \in DOMAIN sets} =>
         /\ LcsClusterById(cc, id).m_shapes = LcsClusterById(cc0, id).m_shapes
         /\ CcConnectionsFor(cc, id) = CcConnectionsFor(cc0, id)
  /\ JsShapes(cc, ClusterIds(cc)) = JsShapes(cc0, ClusterIds(cc0))
  /\ \A e \in EdgesOf(cc0) \cup EdgesOf(cc) :
       JsEdgeCount(cc, ClusterIds(cc), e) = JsEdgeCount(cc0, ClusterIds(cc0), e)

\* C19: after join_superclusters the member with the smallest id of every
\* join set holds the shapes, the attributes and the edges that the members
\* held before, each as often as before; the other members hold no shapes
\* and no edges; the clusters outside the join sets are as before, so no
\* shape and no edge of the cell is lost or there twice; the member that
\* stays is a local cluster if the set holds one.  This holds after the
\* calls of SpecMarks and when build has stitched a cell.
C19_JoinKeepsEverything ==
  /\ mtj.phase = "joined" => JsJoined(mtj.join0, MjCc, mtj.rs.sets)
  /\ HbStitched => JsJoined(hb.join0, TreeGet(hb.rs.tree, hb.cell), hb.rs.sets)

\* two local clusters with shapes and attributes and a dummy with edges were
\* in one join set: the first local cluster holds the shapes of both and the
\* edges of all three
C19_Witness ==
  /\ mtj.phase = "joined"
  /\ \E n \in DOMAIN mtj.rs.sets :
       LET S == mtj.rs.sets[n]
           c == SeqOfSet(S)[1]
       IN /\ Cardinality({x \in S : LcsClusterById(mtj.join0, x).m_shapes # EmptyBag}) >= 2
          /\ \E x \in S : x > Len(mtj.join0.m_clusters)
          /\ Cardinality(JsAttrs(mtj.join0, S)) = 2
          /\ LcsClusterById(MjCc, c).m_size >= 3
          /\ Len(CcConnectionsFor(MjCc, c)) >= 3

\* a cell has been stitched in build with a join set of a local cluster with
\* shapes and a second member with edges
C19_BuildWitness ==
  /\ HbStitched
  /\ \E n \in DOMAIN hb.rs.sets :
       LET S == hb.rs.sets[n]
           c == SeqOfSet(S)[1]
       IN /\ Cardinality(S) >= 2
          /\ LcsClusterById(hb.join0, c).m_shapes # EmptyBag
          /\ \E x \in S \ {c} : CcConnectionsFor(hb.join0, x) # <<>>
          /\ Len(CcConnectionsFor(TreeGet(hb.rs.tree, hb.cell), c))
               > Len(CcConnectionsFor(hb.join0, c))

RECURSIVE MjReach(_, _)
\* the ids linked with an id of S by a chain of pairs of P
MjReach(S, P) ==
  LET S1 == S \cup {p[2] : p \in {q \in P : q[1] \in S}}
                \cup {p[1] : p \in {q \in P : q[2] \in S}}
  IN IF S1 = S THEN S ELSE MjReach(S1, P)

\* the ids named in a pair
MjNamed(P) == {p[1] : p \in P} \cup {p[2] : p \in P}

\* C20: after every sequence of mark_to_join calls the join sets are not
\* empty and pairwise disjoint, the list holds each of them once, the id map
\* sends an id to a set exactly if the set holds the id, and two ids are in
\* one set exactly if a chain of marked pairs links them.
C20_JoinSetsArePartition ==
  mtj.phase = "run" =>
    LET sets == mtj.rs.sets
        jm == mtj.rs.jm
    IN /\ \A n \in DOMAIN sets : sets[n] # {}
       /\ \A m \in DOMAIN sets, n \in DOMAIN sets : m # n => sets[m] \cap sets[n] = {}
       /\ Range(mtj.rs.order) = DOMAIN sets
       /\ Len(mtj.rs.order) = Cardinality(DOMAIN sets)
       /\ \A id \in DOMAIN jm : jm[id] \in DOMAIN sets
       /\ \A id \in MjIds, n \in DOMAIN sets :
            (id \in DOMAIN jm /\ jm[id] = n) <=> id \in sets[n]
       /\ \A a \in MjIds, b \in MjIds :
            (\E n \in DOMAIN sets : a \in sets[n] /\ b \in sets[n])
              <=> (a \in MjNamed(mtj.marked) /\ b \in MjReach({a}, mtj.marked))

\* two sets of two ids each have been joined to one by a third call
C20_Witness ==
  /\ mtj.phase = "run" /\ mtj.n = 3
  /\ \E a \in MjIds, b \in MjIds, c \in MjIds, d \in MjIds :
       /\ Cardinality({a, b, c, d}) = 4
       /\ {<<a, b>>, <<c, d>>, <<d, a>>} = mtj.marked
  /\ \E n \in DOMAIN mtj.rs.sets : mtj.rs.sets[n] = MjIds
  /\ Len(mtj.rs.order) = 1

\* ---------------------------------------------------------------------------
\* SpecAttach: the clusters of cell 1 under up to MaxPairs interacting pairs
\* found by add_single_pair (instances).  k1 and k2 are what make_path has
\* returned for the pair, cc0 the clusters before lines 1090 to 1120, cc the
\* clusters after them.

MaxPairs == 3

\* the edges make_path returns: clusters 1 to 3 of the child cell in the two
\* members of the array
AtEdges == {<<id, <<1, 1, m>>>> : id \in 1..3, m \in 1..2} \ {<<3, <<1, 1, 2>>>>}

AtCx == [cell |-> 1]

\* lines 1090 to 1120 for the pair of edges k1, k2
AtAttach(cc, k1, k2) == HcAttach([tree |-> (1 :> cc), ret |-> <<k1, k2>>], AtCx).tree[1]

\* the clusters of the cell when the scan of its instances begins: a local
\* cluster without edges, alone or with the dummies of two earlier pairs
AtStart ==
  LET cc == [CcNew EXCEPT !.m_clusters = << MjCluster(1, {<<0, MjShape(1)>>}, {}) >>]
  IN {cc, AtAttach(AtAttach(cc, <<1, <<1, 1, 1>>>>, <<2, <<1, 1, 2>>>>),
                   <<2, <<1, 1, 1>>>>, <<1, <<1, 1, 2>>>>)}

InitAttach ==
  /\ \E cc \in AtStart :
       att = [phase |-> "run", cc |-> cc, cc0 |-> CcNew, k1 |-> <<>>, k2 |-> <<>>, n |-> 0]
  /\ BuildIdle
  /\ dob = Idle /\ lcl = Idle /\ cty = Idle /\ rci = Idle /\ lsh = Idle /\ mtj = Idle

\* add_single_pair, lines 1087 to 1120, for one pair (i, j) that interacts
AtPair ==
  /\ att.phase = "run" /\ att.n < MaxPairs
  /\ \E k1 \in AtEdges, k2 \in AtEdges :
       att' = [att EXCEPT !.cc = AtAttach(att.cc, k1, k2),
                          !.cc0 = att.cc, !.k1 = k1, !.k2 = k2, !.n = @ + 1]
  /\ UNCHANGED <<buildVars, dob, lcl, cty, rci, lsh, mtj>>

NextAttach == AtPair

SpecAttach == InitAttach /\ [][NextAttach]_vars

\* the owners of k1 and k2 before the pair
AtX1 == CcFind(att.cc0, att.k1)
AtX2 == CcFind(att.cc0, att.k2)

\* C21: after add_single_pair (instances) has found an interacting pair, k1
\* and k2 have one owner, which is not 0: a new dummy that holds k1 and k2
\* and nothing else if none had an owner; the owner there was, with the
\* other edge added, if one had; and if each had its own, the one with more
\* edges, which holds the edges of both, while the other one holds none.
C21_PairGetsOneOwner ==
  att.phase = "run" /\ att.n > 0 =>
    LET cc0 == att.cc0
        cc == att.cc
        o == CcFind(cc, att.k1)
    IN /\ o # 0 /\ CcFind(cc, att.k2) = o
       /\ AtX1 = 0 /\ AtX2 = 0 =>
            /\ o \notin HandedOutIds(cc0) /\ o > Len(cc.m_clusters)
            /\ CcConnectionsFor(cc, o) = <<att.k1, att.k2>>
       /\ AtX1 = 0 /\ AtX2 # 0 =>
            o = AtX2 /\ CcConnectionsFor(cc, o) = Append(CcConnectionsFor(cc0, o), att.k1)
       /\ AtX1 # 0 /\ AtX2 = 0 =>
            o = AtX1 /\ CcConnectionsFor(cc, o) = Append(CcConnectionsFor(cc0, o), att.k2)
       /\ AtX1 # 0 /\ AtX2 # 0 /\ AtX1 # AtX2 =>
            /\ o \in {AtX1, AtX2}
            /\ \A x \in {AtX1, AtX2} :
                 Len(CcConnectionsFor(cc0, x)) > Len(CcConnectionsFor(cc0, AtX1 + AtX2 - x))
                   => o = x
            /\ CcConnectionsFor(cc, o)
                 = CcConnectionsFor(cc0, o) \o CcConnectionsFor(cc0, AtX1 + AtX2 - o)
            /\ CcConnectionsFor(cc, AtX1 + AtX2 - o) = <<>>
       /\ AtX1 # 0 /\ AtX1 = AtX2 => cc = cc0
       /\ \A e \in EdgesOf(cc0) : CcFind(cc0, e) \notin {AtX1, AtX2} => CcFind(cc, e) = CcFind(cc0, e)
       /\ \A e \in EdgesOf(cc) : e \in Range(CcConnectionsFor(cc, CcFind(cc, e)))

\* k1 and k2 had two owners and the owner of k2 held more edges: it holds all
\* of them now and the owner of k1 holds none
C21_Witness ==
  /\ att.phase = "run" /\ att.n > 0
  /\ AtX1 # 0 /\ AtX2 # 0 /\ AtX1 # AtX2
  /\ Len(CcConnectionsFor(att.cc0, AtX1)) = 2
  /\ Len(CcConnectionsFor(att.cc0, AtX2)) = 3
  /\ CcFind(att.cc, att.k1) = AtX2
  /\ Len(CcConnectionsFor(att.cc, AtX2)) = 5

\* ---------------------------------------------------------------------------
\* the scan of the instances of a cell in build

HbInstScan == hb.phase = "inst"

\* C22: while the instances of a cell are scanned against each other, the
\* clusters that own edges in the cell are dummies without shapes, so the
\* clusters that join_cluster_with and remove_cluster work on are dummies,
\* and the local clusters of the cell are as they were when the scan began:
\* no shape is dropped.
C22_InstScanJoinsDummies ==
  HbInstScan =>
    LET cc == TreeGet(hb.rs.tree, hb.cell)
        cc0 == TreeGet(hb.tree0, hb.cell)
    IN /\ cc.m_clusters = cc0.m_clusters
       /\ \A id \in DOMAIN cc.m_connections :
            id > Len(cc.m_clusters) /\ LcsClusterById(cc, id).m_shapes = EmptyBag
       /\ \A e \in DOMAIN cc.m_rev_connections : cc.m_rev_connections[e] > Len(cc.m_clusters)

\* the scan has joined two dummies in a cell that has a local cluster with
\* shapes: one dummy is left without edges
C22_Witness ==
  /\ HbInstScan
  /\ LiveClusters(TreeGet(hb.rs.tree, hb.cell)) # {}
  /\ \E id \in HandedOutIds(TreeGet(hb.rs.tree, hb.cell)) :
       /\ id > Len(TreeGet(hb.rs.tree, hb.cell).m_clusters)
       /\ CcConnectionsFor(TreeGet(hb.rs.tree, hb.cell), id) = <<>>

\* C23: no make_path of build fails its assertion: a step above the end of
\* the path that finds no owner of the edge in the intermediate cell finds
\* the child cluster root, and the promotion loop hands it the dummy of the
\* step as the next id, which is not 0.
C23_MakePathNeverFails ==
  hb.phase # "idle" => ~hb.rs.aborted

\* a make_path of the stitching of Top has made the dummy of a step in Mid
\* and gone on with it
C23_Witness ==
  /\ hb.phase \in {"inst", "cluster"} /\ hb.cell = 3
  /\ hb.rs.ups > 0 /\ ~hb.rs.aborted
  /\ TreeGet(hb.rs.tree, 2).m_next_dummy_id # TreeGet(hb.tree0, 2).m_next_dummy_id

\* ---------------------------------------------------------------------------
\* SpecSplitRun: split_cluster call by call.  sp.stack holds the frames of
\* the calls that have not returned (the innermost last) with the locals cl,
\* a, b and na; sp.ret is the value of the last return and sp.output the list
\* behind the output iterator, which starts as the heap of build_hier_connections
\* after an earlier cluster.

\* the halves a and b of cl after the dispatch loop
SplitAB(cl) ==
  LET bx == LcBBox(cl)
      wide == BoxWidth(bx) > BoxHeight(bx)
  IN SplitDispatch(cl, BagToSet(cl.m_shapes),
                   IF wide THEN BoxCenter(bx)[1] ELSE bx[1],
                   IF wide THEN bx[2] ELSE BoxCenter(bx)[2],
                   LcNew(cl.m_id), LcNew(cl.m_id))

\* a split that goes on with an empty half
SplitNeverGivesUp(a, b) == FALSE

\* "give up to prevent infinite recursion"
SplitGivesUp(a, b) == a.m_size = 0 \/ b.m_size = 0

\* the frame of a call of split_cluster (cl, ...)
SrFrame(cl) == [cl |-> cl, stage |-> "enter", a |-> LcNew(cl.m_id), b |-> LcNew(cl.m_id), na |-> 0]

\* the cluster that was split into the heap before
SrOther == ClusterOf(2, SplitCands, {1, 4})

InitSplitRun ==
  /\ \E S \in SUBSET (DOMAIN SplitCands), r \in AreaRatios, first \in BOOLEAN :
       /\ Cardinality(S) <= MaxSplitShapes
       /\ LET output0 == IF first THEN <<>> ELSE SplitCluster(SrOther, r, <<>>).output
          IN sp = [phase |-> "rec", cl0 |-> ClusterOf(1, SplitCands, S), r |-> r,
                   output0 |-> output0, output |-> output0, ret |-> 0,
                   stack |-> << SrFrame(ClusterOf(1, SplitCands, S)) >>]
  /\ cb = Idle /\ ic = Idle /\ it = Idle /\ hb = Idle /\ UnitIdle

SrTop == sp.stack[Len(sp.stack)]

\* return n of the innermost call
SrReturn(n, output) ==
  sp' = [sp EXCEPT !.ret = n, !.output = output,
                   !.stack = SubSeq(@, 1, Len(@) - 1),
                   !.phase = IF Len(sp.stack) = 1 THEN "done" ELSE "rec"]

\* lines 440 to 472: from the entry of a call to its first return or to the
\* call for a
SrEnter ==
  /\ sp.phase = "rec" /\ SrTop.stage = "enter"
  /\ IF AreaRatioLess(SrTop.cl, sp.r) THEN SrReturn(0, sp.output)
     ELSE LET ab == SplitAB(SrTop.cl)
          IN IF SplitGivesUp(ab[1], ab[2]) THEN SrReturn(0, sp.output)
             ELSE sp' = [sp EXCEPT !.stack =
                           Append([@ EXCEPT ![Len(@)] = [@ EXCEPT !.stage = "a", !.a = ab[1], !.b = ab[2]]],
                                  SrFrame(ab[1]))]
  /\ UNCHANGED <<cb, ic, it, hb, unitVars>>

\* lines 473 to 474: na is there, the call for b
SrAfterA ==
  /\ sp.phase = "rec" /\ SrTop.stage = "a"
  /\ sp' = [sp EXCEPT !.stack =
              Append([@ EXCEPT ![Len(@)] = [@ EXCEPT !.stage = "b", !.na = sp.ret]], SrFrame(SrTop.b))]
  /\ UNCHANGED <<cb, ic, it, hb, unitVars>>

\* lines 476 to 486: nb is there, the halves that were not split are put out
SrAfterB ==
  /\ sp.phase = "rec" /\ SrTop.stage = "b"
  /\ LET oa == IF SrTop.na = 0 THEN Append(sp.output, SrTop.a) ELSE sp.output
         ob == IF sp.ret = 0 THEN Append(oa, SrTop.b) ELSE oa
     IN SrReturn((IF SrTop.na = 0 THEN 1 ELSE SrTop.na) + (IF sp.ret = 0 THEN 1 ELSE sp.ret), ob)
  /\ UNCHANGED <<cb, ic, it, hb, unitVars>>

NextSplitRun == SrEnter \/ SrAfterA \/ SrAfterB

SpecSplitRun == InitSplitRun /\ [][NextSplitRun]_vars

\* the calls are steps of one sequential function: a call that can go on does
SpecSplitRunFair == SpecSplitRun /\ WF_vars(NextSplitRun)

\* what build_hier_connections inserts into side 1 for the cluster
SrInserted == HbInsert1(<<>>, sp.cl0, sp.ret, sp.output)

\* the heap before, last entry first
SrHeapBefore == [k \in 1..Len(sp.output0) |-> sp.output0[Len(sp.output0) + 1 - k]]

\* C24: split returns the number of fragments it has appended, 0 exactly when
\* it appended nothing, and every fragment holds a shape; so what
\* build_hier_connections inserts for a cluster is the cluster itself or its
\* own fragments, the last n entries of the heap.
C24_SplitCountsItsFragments ==
  sp.phase = "done" =>
    /\ Len(sp.output) = Len(sp.output0) + sp.ret
    /\ SubSeq(sp.output, 1, Len(sp.output0)) = sp.output0
    /\ (sp.ret = 0) <=> (sp.output = sp.output0)
    /\ \A i \in (Len(sp.output0) + 1)..Len(sp.output) :
         sp.output[i].m_size > 0 /\ BagToSet(sp.output[i].m_shapes) # {}
    /\ SplitCluster(sp.cl0, sp.r, sp.output0) = [n |-> sp.ret, output |-> sp.output]
    /\ IF sp.ret = 0 THEN SrInserted = << sp.cl0 >>
       ELSE /\ Len(SrInserted) = sp.ret
            /\ \A k \in 1..sp.ret :
                 /\ SrInserted[k].m_id = sp.cl0.m_id
                 /\ SrInserted[k] = sp.output[Len(sp.output) + 1 - k]
            /\ FoldSeq(LAMBDA acc, f : LcJoinWith(acc, f), LcNew(1), SrInserted).m_shapes
                 = sp.cl0.m_shapes
    /\ (sp.r = HbAreaRatio /\ sp.output0 # <<>>)
         => HbSplitAll(<< SrOther, sp.cl0 >>) = SrHeapBefore \o SrInserted

\* a cluster of three shapes split into two fragments behind the two
\* fragments of the cluster before it, with the threshold of
\* build_hier_connections
C24_Witness ==
  /\ sp.phase = "done" /\ sp.r = HbAreaRatio
  /\ Len(sp.output0) = 2 /\ sp.ret = 2 /\ sp.cl0.m_size >= 3

\* three fragments and more
C24_WitnessThree == sp.phase = "done" /\ Len(sp.output0) = 2 /\ sp.ret >= 3

\* a cluster that is not split with a heap that holds fragments
C24_WitnessUnsplit ==
  /\ sp.phase = "done" /\ sp.r = HbAreaRatio
  /\ Len(sp.output0) = 2 /\ sp.ret = 0 /\ sp.cl0.m_size >= 2

\* the frames of the calls that have not returned nest with falling sizes
SrSizesFall ==
  sp.phase = "rec" =>
    /\ Len(sp.stack) <= sp.cl0.m_size + 1
    /\ \A k \in 2..Len(sp.stack) :
         /\ sp.stack[k].cl.m_size < sp.stack[k - 1].cl.m_size
         /\ sp.stack[k].cl.m_size > 0
    /\ \A k \in 1..Len(sp.stack) :
         sp.stack[k].stage # "enter"
           => /\ sp.stack[k].a.m_size > 0 /\ sp.stack[k].b.m_size > 0
              /\ sp.stack[k].a.m_size + sp.stack[k].b.m_size = sp.stack[k].cl.m_size

\* C25: split ends for every cluster and every threshold: a call inside a
\* call has a cluster with fewer shapes, a division with an empty side is not
\* followed by a call, and the outermost call returns.
C25_SplitTerminates == []SrSizesFall /\ <>(sp.phase = "done")

\* the outermost call has returned 0 for shapes with one and the same centre
\* and a threshold that is not positive
C25_Witness ==
  /\ sp.phase = "done" /\ sp.r <= 0 /\ sp.ret = 0 /\ sp.cl0.m_size = 2
  /\ \A e \in BagToSet(sp.cl0.m_shapes) : BoxCenter(e[2][2]) = <<6, 1>>

\* three calls are open: a fragment of a fragment
C25_WitnessDeep == sp.phase = "rec" /\ Len(sp.stack) = 3 /\ sp.r <= 0

\* C26 as stated: of the touching pairs of placements of one array that
\* add_single_inst hands to add_single_pair, only the first is followed by
\* the descent into the child instances of the arrayed cell; in the code
\* first is true for every pair.
C26_DescentForFirstPairOnly ==
  hb.phase # "idle" => hb.rs.dives <= 1

\* ---------------------------------------------------------------------------
\* SpecArray: build on a top cell with an array of up to MaxArray members at
\* pitch 10 of a cell with one box, with and without a shape and a second
\* instance in the top cell.  Cell 1 is the arrayed cell, cell 3 the top cell.

MaxArray == 3

ArLayouts ==
  { [shapes |-> << << Shp(0, <<0, 0, w, 2>>) >>, <<>>, ts, <<>> >>,
     insts |-> << <<>>, <<>>, << ArrayOf(1, TUnit, <<10, 0>>, n) >> \o x, <<>> >>] :
      w \in {9, 11}, n \in 1..MaxArray,
      ts \in { <<>>, << Shp(0, <<0, 2, 31, 3>>) >> },
      x \in { <<>>, << ArrayOf(1, <<5, 2>>, TUnit, 1) >> } }

InitArray ==
  /\ \E layout \in ArLayouts, conn \in ConnChoices :
       hb = [phase |-> "local", layout |-> layout, conn |-> conn,
             called |-> CalledFrom(layout, {3}),
             local_todo |-> SeqOfSet(CalledFrom(layout, {3})),
             hier_todo |-> SelectSeq(BottomUp(layout), LAMBDA c : c \in CalledFrom(layout, {3})),
             cell |-> 0, rs |-> NewReceiver(EmptyMap),
             pairs |-> {}, fin |-> {}, heap |-> <<>>, lpairs |-> {},
             tree0 |-> EmptyMap, scan0 |-> CcNew, join0 |-> CcNew]
  /\ cb = Idle /\ sp = Idle /\ ic = Idle /\ it = Idle /\ UnitIdle

SpecArray == InitArray /\ [][NextBuild]_vars

\* scenario S3: the top cell holds only the array of three members of the
\* cell with the box (0,0)-(11,2) on layer 0, which is connected to itself
ArIsS3 ==
  /\ hb.phase # "idle"
  /\ hb.layout.shapes = << << Shp(0, <<0, 0, 11, 2>>) >>, <<>>, <<>>, <<>> >>
  /\ hb.layout.insts[3] = << ArrayOf(1, TUnit, <<10, 0>>, 3) >>
  /\ 0 \in ConnConnected(hb.conn, 0)

\* one net with the box under each of the three placements
ArOneNetOfThree ==
  HierNets(hb.rs.tree, hb.layout, 3) = { { << << <<3, 1, m>> >>, 1 >> : m \in 1..3 } }

\* mark_to_join has been called in the stitching of the cell hb.cell
ArMarked == DOMAIN hb.rs.jm # {}

\* C27 as stated: in scenario S3 build yields one net over the three
\* placements and mark_to_join is called in the stitching of the top cell.
C27_S3MarksToJoin ==
  (HbDone /\ ArIsS3) => ArOneNetOfThree /\ ArMarked

\* C27 amended: in scenario S3 build yields one net over the three
\* placements; the placements are joined by the add_single_pair for
\* instances, which leaves one dummy cluster of the top cell that owns the
\* three edges, and mark_to_join is not called, because the top cell has no
\* local cluster.  mark_to_join is called only in a cell with a local cluster.
C27_S3JoinsWithoutMark ==
  /\ (HbDone /\ ArIsS3) =>
       /\ ArOneNetOfThree
       /\ ~ArMarked
       /\ TreeGet(hb.rs.tree, 3).m_clusters = <<>>
       /\ \E d \in DOMAIN TreeGet(hb.rs.tree, 3).m_connections :
            Range(TreeGet(hb.rs.tree, 3).m_connections[d]) = { <<1, <<3, 1, m>>>> : m \in 1..3 }
  /\ (hb.phase # "idle" /\ ArMarked) => LiveClusters(TreeGet(hb.rs.tree, hb.cell)) # {}

\* build has finished on scenario S3
C27_Witness == HbDone /\ ArIsS3 /\ hb.cell = 3

\* mark_to_join is called for an array under a shape of the top cell
C27_WitnessMarked ==
  HbDone /\ ArMarked /\ Len(hb.layout.insts[3][1].placements) = 3

\* the answer of incoming (ci, id) as the first query on a new object
IcFirstAnswer(ci, id) ==
  MapGet(IcLookup(ic.layout, ic.conns,
                  [m_incoming |-> EmptyMap, m_called_cells |-> CalledFrom(ic.layout, {ic.top})],
                  ci).m_incoming[ci], id, <<>>)

\* C28 as stated: a query answers with the same set of triples whatever was
\* queried before it, that is with the triples it returns as the first query
\* on a new object, and no triple is recorded twice.
C28_AnswerIndependentOfOrder ==
  /\ ic.phase = "ready" /\ ic.last.kind = "incoming" =>
       /\ Range(ic.last.result) = Range(IcFirstAnswer(ic.last.ci, ic.last.id))
       /\ Cardinality(Range(ic.last.result)) = Len(ic.last.result)
  /\ ic.phase = "ready" /\ ic.last.kind = "has_incoming" =>
       (ic.last.result <=> IcFirstAnswer(ic.last.ci, ic.last.id) # <<>>)

\* the part that holds: no answer holds a triple twice
C28_NoTripleTwice ==
  ic.phase = "ready" /\ ic.last.kind = "incoming" =>
    Cardinality(Range(ic.last.result)) = Len(ic.last.result)

\* C29 as stated: in every state of build no connection list of a cluster
\* holds the same ClusterInstance twice.
C29_NoEdgeTwiceInAList ==
  hb.phase # "idle" =>
    \A c \in DOMAIN hb.rs.tree : \A id \in DOMAIN hb.rs.tree[c].m_connections :
      Cardinality(Range(hb.rs.tree[c].m_connections[id])) = Len(hb.rs.tree[c].m_connections[id])

\* C30 as stated: build makes entries of the per-cell map, dummy clusters and
\* edges only in the cells called from the top cell; a cell outside that
\* instantiates a called cell gets none.
C30_OnlyCalledCellsTouched ==
  hb.phase # "idle" => DOMAIN hb.rs.tree \subseteq CalledFrom(hb.layout, {3})

====
